---- MODULE Spec2Model ----
(***************************************************************************)
(* Watermarker Pro: the resize calculator and the watermark placement      *)
(* engine of src/watermarker_engine.py, with the helpers of                *)
(* src/validators.py they call.                                            *)
(*                                                                         *)
(* Python floats are IEEE-754 binary64; int / int is correctly rounded,    *)
(* int * float converts the int exactly and rounds the product to nearest  *)
(* even, int(float) truncates toward zero.  A float is modelled as a       *)
(* record [sgn, man, exp] of value sgn * man * 2^exp, where man is the     *)
(* 53-bit significand as a sequence of bits, most significant bit first.   *)
(***************************************************************************)
EXTENDS Integers, Sequences, FiniteSets, TLC

VARIABLES
    pc,            \* position of the modelled call
    resize_args,   \* [orig_w, orig_h, config] handed to _calculate_resize
    resize_ret,    \* what _calculate_resize returned
    img_size,      \* size of the working image in process_image
    corner_args,   \* [new_w, new_h, wm_w, wm_h, margin, position]
    corner_pos,    \* offset at which _apply_corner_watermark pasted
    tiled_args,    \* [new_w, new_h, wm_w, wm_h, gap]
    tiled_pasted,  \* set of <<row, col>> pasted by _apply_tiled_watermark
    tiled_log,     \* the ranges and steps _apply_tiled_watermark last logged
    wm_args,       \* [new_w, new_h, wm_w, wm_h, keys] of an _apply_watermark call
    heap,          \* the image objects alive during _apply_watermark, by name
    wm_ret,        \* name of the object _apply_watermark returned
    session_state, \* st.session_state: widget keys, file cache, selection, results
    env,           \* what the handler finds around it: [wm_file, font, faults]
    wm_obj,        \* the watermark asset the handler prepared, shared by its calls
    calls,         \* the process_image calls made, by source file name
    frame,         \* the local variables of the running handler
    fn_args,       \* the arguments of a library function called directly
    fn_ret,        \* what that call returned, or the exception it raised
    fs             \* the files on disk: sources and cached thumbnails

engineVars == <<resize_args, resize_ret, img_size, corner_args, corner_pos,
                tiled_args, tiled_pasted, tiled_log>>
watermarkVars == <<wm_args, heap, wm_ret>>
handlerVars == <<session_state, env, wm_obj, calls, frame>>
libVars == <<fn_args, fn_ret, fs>>

vars == <<pc, resize_args, resize_ret, img_size,
          corner_args, corner_pos, tiled_args, tiled_pasted, tiled_log,
          wm_args, heap, wm_ret, session_state, env, wm_obj, calls, frame,
          fn_args, fn_ret, fs>>

Max(a, b) == IF a >= b THEN a ELSE b
Min(a, b) == IF a <= b THEN a ELSE b
Abs(a) == IF a < 0 THEN -a ELSE a
Sign(a) == IF a < 0 THEN -1 ELSE IF a = 0 THEN 0 ELSE 1

(***************************************************************************)
(* Configuration constants                                                 *)
(***************************************************************************)
MAX_IMAGE_DIMENSION == 10000
MIN_IMAGE_DIMENSION == 10
MIN_WATERMARK_SCALE == 5
MAX_WATERMARK_SCALE == 100
MIN_THREADS == 1
DEFAULT_THREADS == 2
MAX_FILENAME_LENGTH == 255
MAX_FILE_SIZE == 100 * 1024 * 1024

\* strings the code inspects are sequences of one-character strings
SUPPORTED_INPUT_FORMATS ==
    {<<".", "j", "p", "g">>, <<".", "j", "p", "e", "g">>, <<".", "p", "n", "g">>,
     <<".", "w", "e", "b", "p">>, <<".", "p", "d", "f">>}

(***************************************************************************)
(* binary64 arithmetic                                                     *)
(***************************************************************************)
MantBits == 53

\* number of bits of n >= 0
BitLen(n) == IF n = 0 THEN 0 ELSE CHOOSE L \in 1..31 : 2^(L - 1) <= n /\ (L = 31 \/ n < 2^L)

\* the low k bits of n, most significant first
PadBits(n, k) == [i \in 1..k |-> (n \div 2^(k - i)) % 2]

\* the bits of n > 0, most significant first, starting with a 1
IntBits(n) == PadBits(n, BitLen(n))

\* the integer whose bits are b[lo..hi]
RECURSIVE BitsInt(_, _, _)
BitsInt(b, lo, hi) ==
    IF lo > hi THEN 0
    ELSE IF lo = hi THEN b[lo]
    ELSE LET mid == (lo + hi) \div 2
         IN  BitsInt(b, lo, mid) * 2^(hi - mid) + BitsInt(b, mid + 1, hi)

Zeros(n) == [i \in 1..n |-> 0]

\* b + 1 on bit sequences; one bit longer when b is all ones
Incr(b) ==
    IF \A i \in 1..Len(b) : b[i] = 1 THEN <<1>> \o Zeros(Len(b))
    ELSE LET j == CHOOSE i \in 1..Len(b) :
                      b[i] = 0 /\ \A k \in (i + 1)..Len(b) : b[k] = 1
         IN  [i \in 1..Len(b) |-> IF i < j THEN b[i] ELSE IF i = j THEN 1 ELSE 0]

FZero == [sgn |-> 0, man |-> <<>>, exp |-> 0]

\* Round sgn * (bits + sticky fraction) * 2^exp to nearest, ties to even.
\* bits starts with a 1.
RoundNearestEven(sgn, bits, sticky, exp) ==
    IF Len(bits) <= MantBits
    THEN [sgn |-> sgn,
          man |-> bits \o Zeros(MantBits - Len(bits)),
          exp |-> exp - (MantBits - Len(bits))]
    ELSE LET keep  == SubSeq(bits, 1, MantBits)
             guard == bits[MantBits + 1]
             rest  == sticky \/ \E i \in (MantBits + 2)..Len(bits) : bits[i] = 1
             up    == guard = 1 /\ (rest \/ keep[MantBits] = 1)
             kept  == IF up THEN Incr(keep) ELSE keep
             drop  == Len(bits) - MantBits
         IN  IF Len(kept) > MantBits
             THEN [sgn |-> sgn, man |-> SubSeq(kept, 1, MantBits),
                   exp |-> exp + drop + 1]
             ELSE [sgn |-> sgn, man |-> kept, exp |-> exp + drop]

FromInt(n) ==
    IF n = 0 THEN FZero ELSE RoundNearestEven(Sign(n), IntBits(Abs(n)), FALSE, 0)

FOne == FromInt(1)

\* n further quotient bits of r / B (r < B < 2^17), 13 bits to a step, with
\* the remainder left over
RECURSIVE DivBits(_, _, _, _)
DivBits(r, B, n, acc) ==
    IF n = 0 THEN [bits |-> acc, rem |-> r]
    ELSE LET k == Min(n, 13)
             t == r * 2^k
         IN  DivBits(t % B, B, n - k, acc \o PadBits(t \div B, k))

\* number of zero bits before the first 1 in the binary expansion of r / B
RECURSIVE LeadZeros(_, _)
LeadZeros(r, B) == IF 2 * r >= B THEN 0 ELSE 1 + LeadZeros(2 * r, B)

\* a / b for Python ints, b # 0: the correctly rounded quotient
TrueDiv(a, b) ==
    IF a = 0 THEN FZero
    ELSE LET A  == Abs(a)
             B  == Abs(b)
             q0 == A \div B
             r0 == A % B
         IN  IF q0 > 0
             THEN LET ib == IntBits(q0)
                      nf == MantBits + 1 - Len(ib)
                      d  == DivBits(r0, B, nf, <<>>)
                  IN  RoundNearestEven(Sign(a) * Sign(b), ib \o d.bits,
                                       d.rem # 0, -nf)
             ELSE LET z == LeadZeros(r0, B)
                      d == DivBits(r0 * 2^z, B, MantBits + 1, <<>>)
                  IN  RoundNearestEven(Sign(a) * Sign(b), d.bits,
                                       d.rem # 0, -(z + MantBits + 1))

\* bits of n * man (0 < n < 2^17), most significant first, 13 bits of man
\* to a step from the low end; hi is the last bit of man not yet multiplied
RECURSIVE MulBits(_, _, _, _, _)
MulBits(n, man, hi, carry, acc) ==
    IF hi = 0 THEN IntBits(carry) \o acc
    ELSE LET k == Min(hi, 13)
             t == n * BitsInt(man, hi - k + 1, hi) + carry
         IN  MulBits(n, man, hi - k, t \div 2^k, PadBits(t % 2^k, k) \o acc)

\* the exact product n * f, unrounded: [sgn, bits, exp]
ExactMul(n, f) ==
    IF n = 0 \/ f.sgn = 0 THEN [sgn |-> 0, bits |-> <<>>, exp |-> 0]
    ELSE [sgn  |-> Sign(n) * f.sgn,
          bits |-> MulBits(Abs(n), f.man, MantBits, 0, <<>>),
          exp  |-> f.exp]

\* n * f for a Python int n and float f
FMul(n, f) ==
    LET p == ExactMul(n, f)
    IN  IF p.sgn = 0 THEN FZero
        ELSE RoundNearestEven(p.sgn, p.bits, FALSE, p.exp)

\* integer part (toward zero) of sgn * bits * 2^exp
TruncBits(sgn, bits, exp) ==
    IF sgn = 0 THEN 0
    ELSE IF exp >= 0 THEN sgn * BitsInt(bits, 1, Len(bits)) * 2^exp
    ELSE IF Len(bits) + exp <= 0 THEN 0
    ELSE sgn * BitsInt(bits, 1, Len(bits) + exp)

\* int(f)
int(f) == TruncBits(f.sgn, f.man, f.exp)

\* a < b for floats a, b >= 0 (significands are normalised, so the exponent
\* decides first)
FLess(a, b) ==
    IF b.sgn = 0 THEN FALSE
    ELSE IF a.sgn = 0 THEN TRUE
    ELSE IF a.exp # b.exp THEN a.exp < b.exp
    ELSE \E i \in 1..MantBits :
             /\ a.man[i] < b.man[i]
             /\ \A j \in 1..(i - 1) : a.man[j] = b.man[j]

\* Python's min(a, b) and max(a, b): the first argument unless the second
\* is strictly smaller (larger)
FMin(a, b) == IF FLess(b, a) THEN b ELSE a
FMax(a, b) == IF FLess(a, b) THEN b ELSE a

(***************************************************************************)
(* validators.py                                                           *)
(***************************************************************************)
\* validate_dimensions without its lower limits
validate_dimensions_MaxOnly(width, height) ==
    ~(width > MAX_IMAGE_DIMENSION \/ height > MAX_IMAGE_DIMENSION)

\* TRUE when validate_dimensions returns True, FALSE when it raises
\* ValidationError
validate_dimensions(width, height) ==
    /\ ~(width <= 0 \/ height <= 0)
    /\ ~(width < MIN_IMAGE_DIMENSION \/ height < MIN_IMAGE_DIMENSION)
    /\ ~(width > MAX_IMAGE_DIMENSION \/ height > MAX_IMAGE_DIMENSION)

safe_divide(numerator, denominator, default) ==
    IF denominator = 0 THEN default ELSE TrueDiv(numerator, denominator)

\* TRUE when validate_scale_factor returns True, FALSE when it raises
\* ValidationError (min_val = 0.01, max_val = 10.0)
validate_scale_factor(scale) ==
    /\ FLess(FZero, scale)
    /\ ~(FLess(scale, TrueDiv(1, 100)) \/ FLess(FromInt(10), scale))

\* str.lower() on the letters of the modelled suffixes
LowerChar(c) ==
    CASE c = "J" -> "j" [] c = "P" -> "p" [] c = "G" -> "g" [] c = "N" -> "n"
      [] OTHER -> c
lower(str) == [i \in 1..Len(str) |-> LowerChar(str[i])]

\* A file on disk as the validators see it: [path_empty, exists, is_file,
\* readable, suffix, size, data_ok, width, height].  The result of a
\* validator is the message of the ValidationError raised, "ok" when it
\* returns True.
validate_file_path(f) ==
    IF f.path_empty THEN "File path is empty"
    ELSE IF ~f.exists THEN "File not found"
    ELSE IF ~f.is_file THEN "Not a file"
    ELSE IF ~f.readable THEN "File not readable"
    ELSE "ok"

\* the integrity block: Image.open / verify, then the two dimension checks
VerifyImage(f) ==
    IF ~f.data_ok THEN "Corrupted or invalid image"
    ELSE IF f.width < MIN_IMAGE_DIMENSION \/ f.height < MIN_IMAGE_DIMENSION
    THEN "Image too small"
    ELSE IF f.width > MAX_IMAGE_DIMENSION \/ f.height > MAX_IMAGE_DIMENSION
    THEN "Image too large"
    ELSE "ok"

\* validate_image_file with the size check ahead of the extension check
validate_image_file_SizeFirst(f) ==
    IF validate_file_path(f) # "ok" THEN validate_file_path(f)
    ELSE IF f.size > MAX_FILE_SIZE THEN "File too large"
    ELSE IF lower(f.suffix) \notin SUPPORTED_INPUT_FORMATS
    THEN "Unsupported format"
    ELSE VerifyImage(f)

validate_image_file(f) ==
    IF validate_file_path(f) # "ok" THEN validate_file_path(f)
    ELSE IF lower(f.suffix) \notin SUPPORTED_INPUT_FORMATS
    THEN "Unsupported format"
    ELSE IF f.size > MAX_FILE_SIZE THEN "File too large"
    ELSE VerifyImage(f)

(***************************************************************************)
(* _calculate_resize                                                       *)
(***************************************************************************)
Modes == {"Max Side", "Exact Width", "Exact Height"}

\* the "Max Side" branch taken whenever a side differs from the target
MaxSideApplies_Differs(orig_w, orig_h, target_value) ==
    orig_w # target_value \/ orig_h # target_value

\* the condition of the "Max Side" branch
MaxSideApplies(orig_w, orig_h, target_value) ==
    orig_w > target_value \/ orig_h > target_value

\* new_w = max(1, int(orig_w * scale_factor)) and the same for new_h, of
\* the "Max Side" branch
ScaleBoth(orig_w, orig_h, scale_factor) ==
    [new_w |-> Max(1, int(FMul(orig_w, scale_factor))),
     new_h |-> Max(1, int(FMul(orig_h, scale_factor))),
     scale_factor |-> scale_factor]

\* new_w = target_value; new_h = max(1, int(orig_h * scale_factor))
ScaleToWidth(orig_h, target_value, scale_factor) ==
    [new_w |-> target_value,
     new_h |-> Max(1, int(FMul(orig_h, scale_factor))),
     scale_factor |-> scale_factor]

\* new_w = max(1, int(orig_w * scale_factor)); new_h = target_value
ScaleToHeight(orig_w, target_value, scale_factor) ==
    [new_w |-> Max(1, int(FMul(orig_w, scale_factor))),
     new_h |-> target_value,
     scale_factor |-> scale_factor]

\* the branch on the mode
ResizeByMode(orig_w, orig_h, config) ==
    LET target_value == config.value
        mode == config.mode
    IN  IF mode = "Max Side" /\ MaxSideApplies(orig_w, orig_h, target_value)
        THEN ScaleBoth(orig_w, orig_h,
                       IF orig_w >= orig_h
                       THEN safe_divide(target_value, orig_w, FOne)
                       ELSE safe_divide(target_value, orig_h, FOne))
        ELSE IF mode = "Exact Width"
        THEN ScaleToWidth(orig_h, target_value,
                          safe_divide(target_value, orig_w, FOne))
        ELSE IF mode = "Exact Height"
        THEN ScaleToHeight(orig_w, target_value,
                           safe_divide(target_value, orig_h, FOne))
        ELSE [new_w |-> orig_w, new_h |-> orig_h, scale_factor |-> FOne]

\* the sizes r passed on without validate_dimensions
CheckDimensions_Unchecked(r) ==
    [new_w |-> r.new_w, new_h |-> r.new_h, scale_factor |-> r.scale_factor,
     exc |-> FALSE]

\* validate_dimensions(new_w, new_h) on the sizes r: exc is TRUE when it
\* raises
CheckDimensions(r) ==
    [new_w |-> r.new_w, new_h |-> r.new_h, scale_factor |-> r.scale_factor,
     exc |-> ~validate_dimensions(r.new_w, r.new_h)]

\* the body of the try block up to validate_dimensions; exc is TRUE when
\* validate_dimensions raises
ResizeTry(orig_w, orig_h, config) ==
    CheckDimensions(ResizeByMode(orig_w, orig_h, config))

\* an except clause that logs and re-raises
ResizeExcept_Reraise(orig_w, orig_h, t) ==
    [new_w |-> t.new_w, new_h |-> t.new_h, scale_factor |-> t.scale_factor,
     raised |-> TRUE]

\* an except clause that returns the original size with the computed factor
ResizeExcept_KeepScale(orig_w, orig_h, t) ==
    [new_w |-> orig_w, new_h |-> orig_h, scale_factor |-> t.scale_factor,
     raised |-> FALSE]

\* the except clause: log and return the original size
ResizeExcept(orig_w, orig_h, t) ==
    [new_w |-> orig_w, new_h |-> orig_h, scale_factor |-> FOne, raised |-> FALSE]

\* return new_w, new_h, scale_factor, or the except clause
ResizeReturn(orig_w, orig_h, t) ==
    IF t.exc THEN ResizeExcept(orig_w, orig_h, t)
    ELSE [new_w |-> t.new_w, new_h |-> t.new_h,
          scale_factor |-> t.scale_factor, raised |-> FALSE]

_calculate_resize(orig_w, orig_h, config) ==
    IF ~config.enabled
    THEN [new_w |-> orig_w, new_h |-> orig_h, scale_factor |-> FOne,
          raised |-> FALSE]
    ELSE ResizeReturn(orig_w, orig_h, ResizeTry(orig_w, orig_h, config))

(***************************************************************************)
(* process_image, the resize step                                          *)
(***************************************************************************)
\* size of img after "if scale_factor != 1.0: img = img.resize(...)"
ResizedSize(orig_w, orig_h, ret) ==
    IF ret.scale_factor # FOne THEN <<ret.new_w, ret.new_h>>
    ELSE <<orig_w, orig_h>>

(***************************************************************************)
(* _apply_corner_watermark                                                 *)
(***************************************************************************)
Positions == {"bottom-right", "bottom-left", "top-right", "top-left", "center"}

\* the if / elif chain with the margin also subtracted for center
CornerPosition_CenterMargin(new_w, new_h, wm_w, wm_h, position, margin) ==
    IF position = "bottom-right"
    THEN <<new_w - wm_w - margin, new_h - wm_h - margin>>
    ELSE IF position = "bottom-left"
    THEN <<margin, new_h - wm_h - margin>>
    ELSE IF position = "top-right"
    THEN <<new_w - wm_w - margin, margin>>
    ELSE IF position = "top-left"
    THEN <<margin, margin>>
    ELSE IF position = "center"
    THEN <<(new_w - wm_w - margin) \div 2, (new_h - wm_h - margin) \div 2>>
    ELSE <<margin, margin>>

\* "Calculate position": the if / elif chain
CornerPosition(new_w, new_h, wm_w, wm_h, position, margin) ==
    IF position = "bottom-right"
    THEN <<new_w - wm_w - margin, new_h - wm_h - margin>>
    ELSE IF position = "bottom-left"
    THEN <<margin, new_h - wm_h - margin>>
    ELSE IF position = "top-right"
    THEN <<new_w - wm_w - margin, margin>>
    ELSE IF position = "top-left"
    THEN <<margin, margin>>
    ELSE IF position = "center"
    THEN <<(new_w - wm_w) \div 2, (new_h - wm_h) \div 2>>
    ELSE <<margin, margin>>

\* the clamp without its lower limit
ClampToBounds_NoFloor(pos, size, wm_size) == Min(pos, size - wm_size)

\* "Clamp to image bounds"
ClampToBounds(pos, size, wm_size) == Max(0, Min(pos, size - wm_size))

\* the offset handed to img.paste
_apply_corner_watermark(new_w, new_h, wm_w, wm_h, position, margin) ==
    LET pos == CornerPosition(new_w, new_h, wm_w, wm_h, position, margin)
    IN  <<ClampToBounds(pos[1], new_w, wm_w), ClampToBounds(pos[2], new_h, wm_h)>>

(***************************************************************************)
(* _apply_tiled_watermark                                                  *)
(***************************************************************************)
StepX(wm_w, gap) == Max(10, wm_w + gap)
StepY(wm_h, gap) == Max(10, wm_h + gap)

\* the base rows with the quotient rounded up
BaseRows_Ceil(new_h, step_y) == -((-new_h) \div step_y) + 2

BaseRows(new_h, step_y) == (new_h \div step_y) + 2
BaseCols(new_w, step_x) == (new_w \div step_x) + 2

RowBuffer(base_rows, base_cols) == base_rows
ColBuffer(base_rows, base_cols) == base_cols

\* tile origin with the diagonal shift
TileX(row, col, step_x) == col * step_x + ((row * step_x) \div 2)
TileY(row, step_y) == row * step_y

\* the condition guarding overlay.paste
Intersects(x, y, wm_w, wm_h, new_w, new_h) ==
    x + wm_w > 0 /\ x < new_w /\ y + wm_h > 0 /\ y < new_h

\* the <<row, col>> for which the loops call overlay.paste
\* logger.debug(f"Tiling approach: rows[{start_row}:{end_row}],
\* cols[{start_col}:{end_col}], step_x={step_x}, step_y={step_y}")
TilingLog(new_w, new_h, wm_w, wm_h, gap) ==
    LET step_x == StepX(wm_w, gap)
        step_y == StepY(wm_h, gap)
        base_rows == BaseRows(new_h, step_y)
        base_cols == BaseCols(new_w, step_x)
        row_buffer == RowBuffer(base_rows, base_cols)
        col_buffer == ColBuffer(base_rows, base_cols)
    IN  [start_row |-> -row_buffer, end_row |-> base_rows + row_buffer,
         start_col |-> -col_buffer, end_col |-> base_cols + col_buffer,
         step_x |-> step_x, step_y |-> step_y]

_apply_tiled_watermark(new_w, new_h, wm_w, wm_h, gap) ==
    LET step_x == StepX(wm_w, gap)
        step_y == StepY(wm_h, gap)
        base_rows == BaseRows(new_h, step_y)
        base_cols == BaseCols(new_w, step_x)
        row_buffer == RowBuffer(base_rows, base_cols)
        col_buffer == ColBuffer(base_rows, base_cols)
        start_row == -row_buffer
        end_row == base_rows + row_buffer
        start_col == -col_buffer
        end_col == base_cols + col_buffer
    IN  {rc \in (start_row..(end_row - 1)) \X (start_col..(end_col - 1)) :
            Intersects(TileX(rc[1], rc[2], step_x), TileY(rc[1], step_y),
                       wm_w, wm_h, new_w, new_h)}

(***************************************************************************)
(* _apply_watermark                                                        *)
(*                                                                         *)
(* Image objects are named; heap maps the name of each object alive to     *)
(* [size, px], px being the sequence of paste operations the object has    *)
(* received: [src, size, at], the object pasted, its size then, and the    *)
(* set of offsets pasted at.  The result of wm_obj.resize is "wm_resized"   *)
(* and the result of its rotation "wm_rotated".                            *)
(***************************************************************************)
\* utils.get_resize_config: the configuration built from the widget keys
get_resize_config(keys) ==
    [enabled     |-> keys.resize_enabled,
     mode        |-> keys.resize_mode,
     value       |-> keys.resize_val_state,
     wm_scale    |-> TrueDiv(keys.wm_scale_key, 100),
     wm_margin   |-> IF keys.wm_pos_key # "tiled" THEN keys.wm_margin_key ELSE 0,
     wm_gap      |-> IF keys.wm_pos_key = "tiled" THEN keys.wm_gap_key ELSE 0,
     wm_position |-> keys.wm_pos_key,
     wm_angle    |-> keys.wm_angle_key]

\* scale = max(0.01, min(0.9, scale))
ClampScale(scale) == FMax(TrueDiv(1, 100), FMin(TrueDiv(9, 10), scale))

\* wm_w_target = max(10, int(new_w * scale))
WmTargetW(new_w, scale) == Max(10, int(FMul(new_w, scale)))

\* w_ratio = safe_divide(wm_w_target, wm_obj.width, 1.0)
\* wm_h_target = max(10, int(wm_obj.height * w_ratio))
WmTargetH(wm_w, wm_h, wm_w_target) ==
    Max(10, int(FMul(wm_h, safe_divide(wm_w_target, wm_w, FOne))))

\* size of Image.rotate(angle, expand=True) for the right angles, which
\* Pillow performs as a transposition
RotatedSize(size, angle) ==
    IF angle % 180 = 0 THEN size ELSE <<size[2], size[1]>>

\* a resize that scales wm_obj itself, as Image.thumbnail would
ResizeWatermark_InPlace(h, size) ==
    [n \in DOMAIN h \cup {"wm_resized"} |->
        IF n \in {"wm_resized", "wm_obj"} THEN [size |-> size, px |-> <<>>]
        ELSE h[n]]

\* wm_resized = wm_obj.resize(size): Image.resize returns a new image
ResizeWatermark(h, size) ==
    [n \in DOMAIN h \cup {"wm_resized"} |->
        IF n = "wm_resized" THEN [size |-> size, px |-> <<>>] ELSE h[n]]

\* if angle != 0: wm_resized = wm_resized.rotate(angle, expand=True): the
\* name wm_resized is bound to a new image, here "wm_rotated"
WmName(angle) == IF angle # 0 THEN "wm_rotated" ELSE "wm_resized"

RotateWatermark(h0, angle) ==
    [n \in DOMAIN h0 \cup {WmName(angle)} |->
        IF n = "wm_rotated"
        THEN [size |-> RotatedSize(h0["wm_resized"].size, angle), px |-> <<>>]
        ELSE h0[n]]

\* overlay = Image.new('RGBA', (new_w, new_h)) with the tiles pasted
TiledOverlay(img, wm, wm_size, gap) ==
    [size |-> img.size,
     px |-> << [src |-> wm, size |-> wm_size,
                at |-> {<<TileX(t[1], t[2], StepX(wm_size[1], gap)),
                          TileY(t[1], StepY(wm_size[2], gap))>> :
                            t \in _apply_tiled_watermark(
                                      img.size[1], img.size[2],
                                      wm_size[1], wm_size[2], gap)}] >>]

\* return Image.alpha_composite(img, overlay): a new image
AlphaComposite(h1, overlay) ==
    [n \in DOMAIN h1 \cup {"overlay", "composite"} |->
        IF n = "overlay" THEN overlay
        ELSE IF n = "composite"
        THEN [size |-> h1["img"].size, px |-> h1["img"].px \o overlay.px]
        ELSE h1[n]]

\* img.paste(wm, pos, wm): img itself receives the watermark
Paste(h1, wm, pos) ==
    [h1 EXCEPT !["img"].px = Append(@, [src |-> wm, size |-> h1[wm].size,
                                        at |-> {pos}])]

\* the placement branch of _apply_watermark on the heap h1, which holds the
\* resized and rotated watermark
PlaceWatermark(h1, config, log) ==
    LET wm == WmName(config.wm_angle)
        new_w == h1["img"].size[1]
        new_h == h1["img"].size[2]
        wm_w == h1[wm].size[1]
        wm_h == h1[wm].size[2]
    IN  IF config.wm_position = "tiled"
        THEN [heap |-> AlphaComposite(h1, TiledOverlay(h1["img"], wm,
                                                       h1[wm].size,
                                                       config.wm_gap)),
              ret |-> "composite",
              log |-> TilingLog(new_w, new_h, wm_w, wm_h, config.wm_gap)]
        ELSE [heap |-> Paste(h1, wm,
                             _apply_corner_watermark(new_w, new_h, wm_w, wm_h,
                                                     config.wm_position,
                                                     config.wm_margin)),
              ret |-> "img", log |-> log]

\* wm_resized = wm_obj.resize((wm_w_target, wm_h_target), LANCZOS)
ResizeToTarget(h, wm_w_target) ==
    ResizeWatermark(h, <<wm_w_target,
                         WmTargetH(h["wm_obj"].size[1], h["wm_obj"].size[2],
                                   wm_w_target)>>)

\* _apply_watermark after the clamp: validate_scale_factor, targets,
\* resize, rotation, placement
ApplyScaled(h, config, log, scale) ==
    IF ~validate_scale_factor(scale)
    THEN [heap |-> h, ret |-> "img", log |-> log]
    ELSE PlaceWatermark(
             RotateWatermark(
                 ResizeToTarget(h, WmTargetW(h["img"].size[1], scale)),
                 config.wm_angle),
             config, log)

\* The try block of _apply_watermark on the objects "img" and "wm_obj" of
\* h: the heap after the call, the name of the object returned, and the
\* tiling line of the log, which is log unless the tiled branch writes one
_apply_watermark(h, config, log) ==
    ApplyScaled(h, config, log, ClampScale(config.wm_scale))

(***************************************************************************)
(* Inputs                                                                  *)
(***************************************************************************)
MaxDim == 23
MaxCanvas == 15
MaxWm == 17
MaxMargin == 3
MaxTiledK == 5

LargeDims == {500, 1000, 2000, 4000, 10000}
Dims == {1, 5} \cup (MIN_IMAGE_DIMENSION..MaxDim) \cup LargeDims
Values == {-1000, -1, 0, 1, 5} \cup (MIN_IMAGE_DIMENSION..MaxDim)
              \cup {400, 1000, 2000, 5000, 10000, 10001}

ResizeConfigs ==
    [enabled : {TRUE}, mode : Modes, value : Values]
        \cup [enabled : {FALSE}, mode : Modes, value : {1920}]

ResizeArgs == [orig_w : Dims, orig_h : Dims, config : ResizeConfigs]

CornerArgs ==
    [new_w : MIN_IMAGE_DIMENSION..MaxCanvas, new_h : MIN_IMAGE_DIMENSION..MaxCanvas,
     wm_w : 10..MaxWm, wm_h : 10..MaxWm,
     margin : 0..MaxMargin, position : Positions]

\* the tall canvas of the tiling regression: 1000x3000, tile 100x100, gap 20
TallCanvas == [new_w |-> 1000, new_h |-> 3000, wm_w |-> 100, wm_h |-> 100,
               gap |-> 20]

TiledArgs ==
    [new_w : {10 * k : k \in 1..MaxTiledK}, new_h : {20 * k : k \in 1..MaxTiledK},
     wm_w : {10, 15, 20}, wm_h : {10, 15, 20}, gap : {0, 5, 20}]
        \cup {TallCanvas}

NoResizeArgs == [orig_w |-> 0, orig_h |-> 0,
                 config |-> [enabled |-> FALSE, mode |-> "Max Side", value |-> 0]]
NoResizeRet == [new_w |-> 0, new_h |-> 0, scale_factor |-> FZero, raised |-> FALSE]
NoCornerArgs == [new_w |-> 0, new_h |-> 0, wm_w |-> 0, wm_h |-> 0,
                 margin |-> 0, position |-> "top-left"]
NoTiledArgs == [new_w |-> 0, new_h |-> 0, wm_w |-> 0, wm_h |-> 0, gap |-> 0]
NoTiledLog == [start_row |-> 0, end_row |-> 0, start_col |-> 0, end_col |-> 0,
               step_x |-> 0, step_y |-> 0]

\* the widgets of the watermark settings: position, scale slider (per cent),
\* margin or gap slider, angle slider; resizing switched off
WmKeys ==
    [wm_pos_key : Positions \cup {"tiled"},
     wm_scale_key : {MIN_WATERMARK_SCALE, 15, 50, 90, 91, MAX_WATERMARK_SCALE},
     wm_margin_key : {0, 15}, wm_gap_key : {0, 30},
     wm_angle_key : {0, 90, 180},
     resize_enabled : {FALSE}, resize_mode : {"Max Side"},
     resize_val_state : {1920}]

WmArgs ==
    [new_w : {100, 1000}, new_h : {100, 600},
     wm_w : {15, 200, 300}, wm_h : {15, 70}, keys : WmKeys]

NoWmArgs == [new_w |-> 0, new_h |-> 0, wm_w |-> 0, wm_h |-> 0,
             keys |-> [wm_pos_key |-> "top-left", wm_scale_key |-> 0,
                       wm_margin_key |-> 0, wm_gap_key |-> 0,
                       wm_angle_key |-> 0, resize_enabled |-> FALSE,
                       resize_mode |-> "Max Side", resize_val_state |-> 0]]
NoImage == [size |-> <<0, 0>>, px |-> <<>>]
NoHeap == [n \in {} |-> NoImage]

\* no library function called, nothing on disk
NoFnArgs == [fn |-> "none"]
NoFnRet == [kind |-> "none"]
\* the disk: the time, the image file (its content numbered by version, and
\* its modification time) and the thumbnail next to it (the version it was
\* made from, and its modification time)
NoThumb == [exists |-> FALSE, of |-> 0, mtime |-> 0]
NoFiles == [clock |-> 0, file |-> [version |-> 0, mtime |-> 0],
            thumb |-> NoThumb]
IdleLib ==
    /\ fn_args = NoFnArgs
    /\ fn_ret = NoFnRet
    /\ fs = NoFiles

IdleWatermark ==
    /\ wm_args = NoWmArgs
    /\ heap = NoHeap
    /\ wm_ret = ""

(***************************************************************************)
(* Watermark preparation                                                   *)
(*                                                                         *)
(* A watermark asset is [of, size, px, text, rgb, alpha]: "text" or "logo",*)
(* its size, the pastes it has received, the text and colour drawn, and    *)
(* the alpha of its opaque pixels.  None is Python's None.  Byte strings   *)
(* are [present, empty, decodable, width, height], present FALSE for None. *)
(***************************************************************************)
None == [of |-> "none", mode |-> "", size |-> <<0, 0>>, px |-> <<>>,
         text |-> <<>>, rgb |-> <<0, 0, 0>>, alpha |-> <<>>]

Whitespace == {" ", "\t", "\n"}

\* str.strip()
strip(str) ==
    LET ink == {i \in 1..Len(str) : str[i] \notin Whitespace}
    IN  IF ink = {} THEN <<>>
        ELSE SubSeq(str, CHOOSE i \in ink : \A j \in ink : i <= j,
                         CHOOSE i \in ink : \A j \in ink : i >= j)

\* color_hex.lstrip('#')
lstrip_hash(str) ==
    LET rest == {i \in 1..Len(str) : str[i] # "#"}
    IN  IF rest = {} THEN <<>>
        ELSE SubSeq(str, CHOOSE i \in rest : \A j \in rest : i <= j, Len(str))

HexDigit ==
    [c \in {"0", "1", "8", "9", "a", "f", "A", "F"} |->
        CASE c = "0" -> 0 [] c = "1" -> 1 [] c = "8" -> 8 [] c = "9" -> 9
          [] c = "a" -> 10 [] c = "A" -> 10 [] c = "f" -> 15 [] c = "F" -> 15]

\* int(color[i:i+2], 16) on the modelled characters: surrounding
\* whitespace is stripped, a sign is accepted, the rest must be hexadecimal
\* digits; ok FALSE for ValueError
HexPair(a, b) ==
    IF a \in DOMAIN HexDigit /\ b \in DOMAIN HexDigit
    THEN [ok |-> TRUE, value |-> 16 * HexDigit[a] + HexDigit[b]]
    ELSE IF a \in Whitespace \cup {"+"} /\ b \in DOMAIN HexDigit
    THEN [ok |-> TRUE, value |-> HexDigit[b]]
    ELSE IF a = "-" /\ b \in DOMAIN HexDigit
    THEN [ok |-> TRUE, value |-> -HexDigit[b]]
    ELSE IF a \in DOMAIN HexDigit /\ b \in Whitespace
    THEN [ok |-> TRUE, value |-> HexDigit[a]]
    ELSE [ok |-> FALSE, value |-> 0]

\* rgb = tuple(int(color[i:i+2], 16) for i in (0, 2, 4)), ValueError
\* becoming ValidationError
ParsedColor(r, g, b) ==
    IF r.ok /\ g.ok /\ b.ok
    THEN [ok |-> TRUE, rgb |-> <<r.value, g.value, b.value>>]
    ELSE [ok |-> FALSE, rgb |-> <<0, 0, 0>>]

\* validate_color_hex: ok FALSE when it raises ValidationError
validate_color_hex(color_hex) ==
    LET color == lstrip_hash(color_hex)
    IN  IF Len(color) # 6 THEN [ok |-> FALSE, rgb |-> <<0, 0, 0>>]
        ELSE ParsedColor(HexPair(color[1], color[2]),
                         HexPair(color[3], color[4]),
                         HexPair(color[5], color[6]))

\* the emptiness test without the strip
IsBlank_NoStrip(text) == text = <<>>

\* not text or not text.strip()
IsBlank(text) == text = <<>> \/ strip(text) = <<>>

\* create_text_watermark; font is the text engine as the call finds it:
\* [renders, advance, height], renders FALSE when measuring or drawing
\* raises.  Every exception inside the try returns None.
create_text_watermark(text, font, color_hex) ==
    IF IsBlank(text) THEN None
    ELSE LET c == validate_color_hex(color_hex)
             w == Len(text) * font.advance
             h == font.height
             padding == 20
         IN  IF ~c.ok \/ ~font.renders THEN None
             ELSE [of |-> "text", mode |-> "RGBA",
                   size |-> <<w + padding * 2, h + padding * 2>>,
                   px |-> <<>>, text |-> text, rgb |-> c.rgb,
                   alpha |-> <<0, 255>>]

\* ImageEnhance.Brightness(alpha).enhance(opacity) on one alpha value:
\* Image.blend with black is a * opacity, cut to an 8-bit integer
Enhance(a, opacity) == (a * opacity) \div 100

\* apply_opacity without "opacity = max(0.0, min(1.0, opacity))"
apply_opacity_NoClamp(image, opacity) ==
    IF opacity >= 100 THEN image
    ELSE [image EXCEPT !.alpha = [i \in 1..Len(@) |-> Enhance(@[i], opacity)]]

\* apply_opacity, opacity in hundredths: the same object, every value of
\* its alpha channel scaled
apply_opacity(image, opacity) ==
    IF opacity >= 100 THEN image
    ELSE [image EXCEPT !.alpha = [i \in 1..Len(@) |->
                                     Enhance(@[i], Max(0, Min(100, opacity)))]]

\* the words of the two ValueError messages of load_watermark_from_bytes
EmptyMessage == <<"Watermark", "bytes", "are", "empty">>
FailedMessage == <<"Failed", "to", "load", "watermark">>

\* wm = Image.open(io.BytesIO(wm_bytes)); wm = wm.convert("RGBA"); the two
\* dimension checks: the image, or None when one of them raised
DecodeWatermark(wm_bytes) ==
    IF \/ ~wm_bytes.decodable
       \/ wm_bytes.width = 0 \/ wm_bytes.height = 0
       \/ ~validate_dimensions(wm_bytes.width, wm_bytes.height)
    THEN None
    ELSE [of |-> "logo", mode |-> "RGBA",
          size |-> <<wm_bytes.width, wm_bytes.height>>,
          px |-> <<>>, text |-> <<>>, rgb |-> <<0, 0, 0>>,
          alpha |-> IF wm_bytes.mode = "RGBA" THEN wm_bytes.alpha
                    ELSE [i \in 1..Len(wm_bytes.alpha) |-> 255]]

\* the except clause: raise ValueError(f"Failed to load watermark: {e}")
LoadOutcome(wm) ==
    IF wm = None
    THEN [raised |-> TRUE, exc |-> "ValueError", msg |-> FailedMessage,
          wm |-> None]
    ELSE [raised |-> FALSE, exc |-> "", msg |-> <<>>, wm |-> wm]

\* load_watermark_from_bytes without "if not wm_bytes: raise ValueError"
load_watermark_from_bytes_NoEmptyCheck(wm_bytes) ==
    LoadOutcome(DecodeWatermark(wm_bytes))

\* load_watermark_from_bytes: raised TRUE for ValueError
load_watermark_from_bytes(wm_bytes) ==
    IF ~wm_bytes.present \/ wm_bytes.empty
    THEN [raised |-> TRUE, exc |-> "ValueError", msg |-> EmptyMessage,
          wm |-> None]
    ELSE LoadOutcome(DecodeWatermark(wm_bytes))

\* utils.prepare_watermark_object(wm_file, selected_font_name) on the
\* session state ss: [raised, wm_obj]
prepare_watermark_object(wm_file, font, ss) ==
    LET wm_text == strip(ss.wm_text_key)
        text_wm == IF wm_text # <<>>
                   THEN create_text_watermark(wm_text, font,
                                              ss.wm_text_color_key)
                   ELSE None
        wm_bytes == IF wm_file.present THEN wm_file
                    ELSE IF ss.preset_wm_bytes_key.present
                            /\ ~ss.preset_wm_bytes_key.empty
                    THEN ss.preset_wm_bytes_key
                    ELSE [wm_file EXCEPT !.present = FALSE]
        loaded == load_watermark_from_bytes(wm_bytes)
    IN  IF text_wm # None
        THEN [raised |-> FALSE,
              wm_obj |-> apply_opacity(text_wm, ss.wm_opacity_key)]
        ELSE IF wm_bytes.present /\ ~wm_bytes.empty
        THEN IF loaded.raised THEN [raised |-> TRUE, wm_obj |-> None]
             ELSE [raised |-> FALSE,
                   wm_obj |-> apply_opacity(loaded.wm, ss.wm_opacity_key)]
        ELSE [raised |-> FALSE, wm_obj |-> None]

(***************************************************************************)
(* sanitize_filename                                                       *)
(*                                                                         *)
(* File names are sequences of one-character strings.                      *)
(***************************************************************************)
\* seq without its characters in drop, in order
RECURSIVE Without(_, _)
Without(seq, drop) ==
    LET hits == {i \in 1..Len(seq) : seq[i] \in drop}
    IN  IF hits = {} THEN seq
        ELSE LET i == CHOOSE h \in hits : \A g \in hits : h <= g
             IN  SubSeq(seq, 1, i - 1)
                     \o Without(SubSeq(seq, i + 1, Len(seq)), drop)

\* Path(filename).name: the last component that is neither empty nor ".",
\* "" when there is none
PathName(filename) ==
    LET n == Len(filename)
        starts == {i \in 1..n : /\ filename[i] # "/"
                                /\ i = 1 \/ filename[i - 1] = "/"}
        EndOf(i) == CHOOSE j \in i..n :
                        /\ j = n \/ filename[j + 1] = "/"
                        /\ \A k \in i..j : filename[k] # "/"
        parts == {i \in starts : SubSeq(filename, i, EndOf(i)) # <<".">>}
    IN  IF parts = {} THEN <<>>
        ELSE LET last == CHOOSE p \in parts : \A q \in parts : q <= p
             IN  SubSeq(filename, last, EndOf(last))

\* the characters re.sub(r'[<>:"|?*\x00-\x1f]', '', ...) removes
Dangerous == {"<", ">", ":", "\"", "|", "?", "*", "\t", "\n"}

\* filename.replace(' ', '_')
Underscored(seq) == [i \in 1..Len(seq) |-> IF seq[i] = " " THEN "_" ELSE seq[i]]

\* os.path.splitext: the extension starts at the last dot that has a
\* character other than a dot before it
SplitExt(seq) ==
    LET dots == {i \in 1..Len(seq) :
                    seq[i] = "." /\ \E k \in 1..(i - 1) : seq[k] # "."}
    IN  IF dots = {} THEN [name |-> seq, ext |-> <<>>]
        ELSE LET d == CHOOSE i \in dots : \A j \in dots : j <= i
             IN  [name |-> SubSeq(seq, 1, d - 1),
                  ext |-> SubSeq(seq, d, Len(seq))]

\* the slice seq[:n] of Python, n negative included
Prefix(seq, n) ==
    IF n >= 0 THEN SubSeq(seq, 1, Min(n, Len(seq)))
    ELSE SubSeq(seq, 1, Max(0, Len(seq) + n))

Unnamed == <<"u", "n", "n", "a", "m", "e", "d">>
UnnamedJpg == Unnamed \o <<".", "j", "p", "g">>

\* the name after the path, the dangerous characters and the spaces have
\* been dealt with
Cleaned(filename) ==
    Underscored(Without(PathName(filename), Dangerous))

\* if len(filename) > MAX_FILENAME_LENGTH: name, ext = splitext(filename);
\* filename = name[:MAX_FILENAME_LENGTH - len(ext)] + ext
Limited(filename, parts) ==
    IF Len(filename) > MAX_FILENAME_LENGTH
    THEN Prefix(parts.name, MAX_FILENAME_LENGTH - Len(parts.ext)) \o parts.ext
    ELSE filename

\* if not filename or filename == '.': filename = "unnamed.jpg"
NotEmpty(filename) ==
    IF filename = <<>> \/ filename = <<".">> THEN UnnamedJpg ELSE filename

LimitedName(cleaned) == NotEmpty(Limited(cleaned, SplitExt(cleaned)))

sanitize_filename(filename) ==
    IF filename = <<>> THEN Unnamed ELSE LimitedName(Cleaned(filename))

(***************************************************************************)
(* generate_filename                                                       *)
(***************************************************************************)
\* the slug of a file stem: transliterated, lower-cased, separators
\* collapsed, on the modelled stems
Slug(stem) == CASE stem = "A" -> "a" [] stem = "B" -> "b" [] OTHER -> stem

\* str.lower() of the output format
FormatLower(fmt) ==
    CASE fmt = "JPEG" -> "jpeg" [] fmt = "PNG" -> "png" [] fmt = "WEBP" -> "webp"
      [] OTHER -> fmt

\* generate_filename: <<prefix part, slug part, sequence number, extension>>
\* for f"{base_name}_{index:03d}.{extension}" and f"{base}.{extension}"
generate_filename(file, naming_mode, prefix, extension, index) ==
    LET clean_prefix == Slug(prefix)
        slug == IF Slug(file.stem) = "" THEN "image" ELSE Slug(file.stem)
    IN  IF naming_mode = "Prefix + Sequence"
        THEN <<IF clean_prefix # "" THEN clean_prefix ELSE "image", "", index,
               extension>>
        ELSE <<clean_prefix, slug, 0, extension>>

(***************************************************************************)
(* process_image                                                           *)
(*                                                                         *)
(* A call is a record: its arguments (file, filename, wm_given, config,    *)
(* output_fmt, quality), the step it is at, its local image img, the       *)
(* sizes it computed, the steps it has performed (trace) and what it       *)
(* handed to its caller (ret: the bytes and stats returned, or the type    *)
(* and message of the exception raised and the source file it names).      *)
(* fault names the step at which the environment fails the call (I/O       *)
(* error, out of memory), "none" if it does not.  The watermark asset      *)
(* wm_obj is shared between calls.                                         *)
(***************************************************************************)
Faults == {"none", "open", "resize", "watermark", "export"}

NoBytesOut == [fmt |-> "", mode |-> "", img |-> NoImage,
               kwargs |-> [k \in {} |-> 0]]
NoRet == [kind |-> "none", exc |-> "", msg |-> "", source |-> "",
          bytes |-> NoBytesOut,
          stats |-> [filename |-> "", orig_res |-> <<0, 0>>,
                     new_res |-> <<0, 0>>, scale_factor |-> FZero]]

NewCall(file, filename, wm_given, config, output_fmt, quality, fault) ==
    [file |-> file, filename |-> filename, wm_given |-> wm_given,
     config |-> config, output_fmt |-> output_fmt, quality |-> quality,
     fault |-> fault, step |-> "validate", img |-> NoImage,
     orig |-> <<0, 0>>, resize |-> NoResizeRet, trace |-> <<>>,
     ret |-> NoRet]

\* except Exception as e: logger.error(...); raise -- the exception leaves
\* process_image as it was raised
Reraise(c, exc, msg) ==
    [c EXCEPT !.step = "done",
              !.ret = [NoRet EXCEPT !.kind = "raised", !.exc = exc,
                                    !.msg = msg]]

\* validate_image_file(file_path)
StepValidate(c) ==
    LET r == validate_image_file(c.file)
        d == [c EXCEPT !.trace = Append(@, "validate")]
    IN  IF r # "ok" THEN Reraise(d, "ValidationError", r)
        ELSE [d EXCEPT !.step = "open"]

\* with Image.open(file_path) as img_temp: ... img = img.convert("RGBA")
StepOpen(c) ==
    LET d == [c EXCEPT !.trace = Append(@, "open")]
    IN  IF c.fault = "open" THEN Reraise(d, "OSError", "open")
        ELSE [d EXCEPT !.step = "resize",
                       !.orig = <<c.file.width, c.file.height>>,
                       !.img = [size |-> <<c.file.width, c.file.height>>,
                                px |-> <<>>]]

\* if scale_factor != 1.0: img = img.resize((new_w, new_h)), for the
\* result r of _calculate_resize
AfterResize(c, r) ==
    LET d == [c EXCEPT !.trace = Append(@, "resize"), !.resize = r]
    IN  IF r.scale_factor # FOne /\ c.fault = "resize"
        THEN Reraise(d, "MemoryError", "resize")
        ELSE [d EXCEPT !.step = IF c.wm_given THEN "watermark" ELSE "export",
                       !.img.size = ResizedSize(c.orig[1], c.orig[2], r)]

\* new_w, new_h, scale_factor = _calculate_resize(...)
StepResize(c) ==
    AfterResize(c, _calculate_resize(c.orig[1], c.orig[2], c.config))

\* a compositing that resizes the shared asset itself
AfterComposite_SharedResize(d, asset, r) ==
    [call |-> [d EXCEPT !.img = r.heap[r.ret]],
     wm_obj |-> [asset EXCEPT !.size = r.heap["wm_resized"].size]]

\* img is bound to what _apply_watermark returned (r); the asset is the
\* object "wm_obj" as the call left it
AfterComposite(d, asset, r) ==
    [call |-> [d EXCEPT !.img = r.heap[r.ret]],
     wm_obj |-> [asset EXCEPT !.size = r.heap["wm_obj"].size,
                              !.px = r.heap["wm_obj"].px]]

\* the objects _apply_watermark is called on
HeapOf(img, asset) ==
    [n \in {"img", "wm_obj"} |->
        IF n = "img" THEN img ELSE [size |-> asset.size, px |-> asset.px]]

\* an _apply_watermark whose except clause raises again
StepWatermark_Raises(c, asset) ==
    IF c.fault = "watermark"
    THEN [call |-> Reraise([c EXCEPT !.trace = Append(@, "watermark")],
                           "OSError", "watermark"),
          wm_obj |-> asset]
    ELSE AfterComposite([c EXCEPT !.trace = Append(@, "watermark"),
                                  !.step = "export"],
                        asset,
                        _apply_watermark(HeapOf(c.img, asset), c.config,
                                         NoTiledLog))

\* img = _apply_watermark(img, wm_obj, resize_config), with its
\* "except Exception: return img": the call and the asset afterwards
StepWatermark(c, asset) ==
    IF c.fault = "watermark"
    THEN [call |-> [c EXCEPT !.trace = Append(@, "watermark"),
                             !.step = "export"],
          wm_obj |-> asset]
    ELSE AfterComposite([c EXCEPT !.trace = Append(@, "watermark"),
                                  !.step = "export"],
                        asset,
                        _apply_watermark(HeapOf(c.img, asset), c.config,
                                         NoTiledLog))

(***************************************************************************)
(* _export_image                                                           *)
(*                                                                         *)
(* The bytes written are described by what is handed to img.save: the      *)
(* image, its mode and the keyword arguments.  An image may carry sample   *)
(* pixels <<r, g, b, a>> in a field "pixels".                              *)
(***************************************************************************)
\* the rounded division by 255 of Pillow's paste
Div255(a) == LET tmp == a + 128 IN ((tmp \div 256) + tmp) \div 256

\* one channel of background.paste(img, mask): in1 under the mask, in2 over it
Blend(mask, in1, in2) == Div255(in1 * (255 - mask) + in2 * mask)

\* one pixel of Image.new("RGB", size, (255, 255, 255)) after the paste
PasteOnWhite(p) ==
    <<Blend(p[4], 255, p[1]), Blend(p[4], 255, p[2]), Blend(p[4], 255, p[3])>>

\* img.convert("RGB") on one pixel
DropAlpha(p) == <<p[1], p[2], p[3]>>

\* one pixel of the image that is saved
ExportPixel(p, output_fmt) ==
    IF output_fmt = "JPEG" THEN PasteOnWhite(p)
    ELSE IF output_fmt = "RGB" THEN DropAlpha(p)
    ELSE p

\* the image that is saved: img with its sample pixels, where it has any,
\* converted; and its mode
ExportCanvas(img, output_fmt) ==
    [f \in DOMAIN img |->
        IF f = "pixels"
        THEN [i \in 1..Len(img[f]) |-> ExportPixel(img[f][i], output_fmt)]
        ELSE img[f]]
ExportMode(output_fmt) ==
    IF output_fmt \in {"JPEG", "RGB"} THEN "RGB" ELSE "RGBA"

\* save_kwargs['exif'] = exif_data, for exif data that is not empty
ExifKwargs(output_fmt, exif_data) ==
    IF exif_data # "" /\ output_fmt \in {"JPEG", "WEBP"}
    THEN [k \in {"exif"} |-> exif_data]
    ELSE [k \in {} |-> ""]

\* save_kwargs.update({...})
FormatKwargs(output_fmt, quality) ==
    IF output_fmt = "JPEG"
    THEN [format |-> "JPEG", quality |-> quality, optimize |-> TRUE,
          subsampling |-> 0]
    ELSE IF output_fmt = "WEBP"
    THEN [format |-> "WEBP", quality |-> quality, method |-> 6]
    ELSE IF output_fmt = "PNG"
    THEN [format |-> "PNG", optimize |-> TRUE]
    ELSE [k \in {} |-> ""]

\* _export_image with the PNG branch passing the quality as well
_export_image_QualityForPng(img, output_fmt, quality, exif_data) ==
    [fmt |-> output_fmt, mode |-> ExportMode(output_fmt),
     img |-> ExportCanvas(img, output_fmt),
     kwargs |-> ExifKwargs(output_fmt, exif_data)
                    @@ FormatKwargs(output_fmt, quality)
                    @@ [k \in {"quality"} |-> quality]]

_export_image(img, output_fmt, quality, exif_data) ==
    [fmt |-> output_fmt, mode |-> ExportMode(output_fmt),
     img |-> ExportCanvas(img, output_fmt),
     kwargs |-> ExifKwargs(output_fmt, exif_data)
                    @@ FormatKwargs(output_fmt, quality)]

\* result_bytes = _export_image(...); stats = {...}; return
StepExport(c) ==
    LET d == [c EXCEPT !.trace = Append(@, "export")]
    IN  IF c.fault = "export" THEN Reraise(d, "OSError", "export")
        ELSE [d EXCEPT
                 !.step = "done",
                 !.ret = [kind |-> "returned", exc |-> "", msg |-> "",
                          source |-> "",
                          bytes |-> _export_image(c.img, c.output_fmt,
                                                  c.quality, c.file.exif),
                          stats |-> [filename |-> c.filename,
                                     orig_res |-> c.orig,
                                     new_res |-> <<c.resize.new_w,
                                                   c.resize.new_h>>,
                                     scale_factor |-> c.resize.scale_factor]]]

\* process_image run from start to end with nothing else running
RECURSIVE process_image(_, _)
process_image(c, asset) ==
    IF c.step = "done" THEN c.ret
    ELSE IF c.step = "validate" THEN process_image(StepValidate(c), asset)
    ELSE IF c.step = "open" THEN process_image(StepOpen(c), asset)
    ELSE IF c.step = "resize" THEN process_image(StepResize(c), asset)
    ELSE IF c.step = "watermark"
    THEN LET r == StepWatermark(c, asset)
         IN  process_image(r.call, r.wm_obj)
    ELSE process_image(StepExport(c), asset)

(***************************************************************************)
(* Inputs of the handlers                                                  *)
(***************************************************************************)
MaxTextLen == 2

TextChars == {" ", "\t", "a"}
Texts == UNION {[1..n -> TextChars] : n \in 0..MaxTextLen}

White == <<"#", "F", "F", "F", "F", "F", "F">>
Colors == {White, <<"f", "f", "0", "0", "8", "8">>,
           <<"#", "G", "G", "G", "G", "G", "G">>}

Fonts == [renders : BOOLEAN, advance : {25}, height : {50}]
GoodFont == [renders |-> TRUE, advance |-> 25, height |-> 50]

NoBytes == [present |-> FALSE, empty |-> TRUE, decodable |-> FALSE,
            mode |-> "", alpha |-> <<>>, width |-> 0, height |-> 0]
GoodLogo == [present |-> TRUE, empty |-> FALSE, decodable |-> TRUE,
             mode |-> "RGBA", alpha |-> <<0, 128, 255>>,
             width |-> 200, height |-> 100]
OtherLogo == [GoodLogo EXCEPT !.width = 300, !.height = 70]
BadLogo == [GoodLogo EXCEPT !.decodable = FALSE, !.width = 0, !.height = 0]
TinyLogo == [GoodLogo EXCEPT !.width = 5, !.height = 5]

JpgSuffix == <<".", "j", "p", "g">>
Suffixes == {JpgSuffix, <<".", "J", "P", "G">>, <<".", "p", "d", "f">>,
             <<".", "t", "x", "t">>, <<>>}

\* a regular, readable, well-formed 800x600 JPEG
ValidFile ==
    [stem |-> "a", path_empty |-> FALSE, exists |-> TRUE, is_file |-> TRUE,
     readable |-> TRUE, suffix |-> JpgSuffix, size |-> 2048, data_ok |-> TRUE,
     width |-> 800, height |-> 600, exif |-> "Exif"]

\* what can be found at a path: nothing, a directory, an unreadable file, or
\* a readable file of some suffix, size, content and dimensions; attributes
\* nobody can read are left at those of ValidFile
SourceFiles ==
    {[ValidFile EXCEPT !.path_empty = TRUE, !.exists = FALSE,
                       !.is_file = FALSE, !.readable = FALSE, !.suffix = <<>>]}
    \cup {[ValidFile EXCEPT !.exists = FALSE, !.is_file = FALSE,
                            !.readable = FALSE, !.suffix = x] : x \in Suffixes}
    \cup {[ValidFile EXCEPT !.is_file = FALSE, !.suffix = x] : x \in Suffixes}
    \cup {[ValidFile EXCEPT !.readable = FALSE, !.suffix = x] : x \in Suffixes}
    \cup {[ValidFile EXCEPT !.suffix = x, !.size = z, !.data_ok = FALSE] :
              x \in Suffixes, z \in {2048, MAX_FILE_SIZE, MAX_FILE_SIZE + 1}}
    \cup {[ValidFile EXCEPT !.suffix = x, !.size = z, !.width = w, !.height = h] :
              x \in Suffixes, z \in {2048, MAX_FILE_SIZE, MAX_FILE_SIZE + 1},
              w \in {5, 10, 800, 10000, 10001},
              h \in {5, 10, 600, 10000, 10001}}

NoResults == [stored |-> FALSE, zip |-> <<>>, files |-> <<>>, report |-> <<>>]

\* st.session_state after init_session_state (config.DEFAULT_SETTINGS), no
\* file uploaded
DefaultSession ==
    [resize_enabled |-> TRUE, resize_mode |-> "Max Side",
     resize_val_state |-> 1920, wm_pos_key |-> "bottom-right",
     wm_scale_key |-> 15, wm_opacity_key |-> 100, wm_margin_key |-> 15,
     wm_gap_key |-> 30, wm_angle_key |-> 0, wm_text_key |-> <<>>,
     wm_text_color_key |-> White, out_fmt_key |-> "JPEG",
     out_quality_key |-> 80, naming_mode_key |-> "Keep Original",
     naming_prefix_key |-> "", preset_wm_bytes_key |-> NoBytes,
     file_cache |-> [n \in {} |-> ValidFile], selected_files |-> {},
     results |-> NoResults]

NoEnv == [wm_file |-> NoBytes, font |-> GoodFont,
          faults |-> [n \in {} |-> "none"]]
NoCalls == [n \in {} |-> NewCall(ValidFile, <<"", 0, "">>, FALSE,
                                  get_resize_config(DefaultSession), "", 0,
                                  "none")]
\* the locals of the button handlers: the thread count chosen on the
\* performance slider, the list made of the selection, the futures already
\* collected, the ZIP entries, results and report built so far, the st.error
\* messages shown, and whether an exception reached the outer handlers
NoFrame == [max_threads |-> DEFAULT_THREADS, raised |-> FALSE,
            process_list |-> <<>>, collected |-> {},
            zip |-> <<>>, results |-> <<>>, report |-> <<>>, errors |-> <<>>]

IdleHandler ==
    /\ session_state = DefaultSession
    /\ env = NoEnv
    /\ wm_obj = None
    /\ calls = NoCalls
    /\ frame = NoFrame

\* one uploaded file "a", selected
WithFile(ss, file) ==
    [ss EXCEPT !.file_cache = [n \in {"a"} |-> file],
               !.selected_files = {"a"}]

\* sessions that differ in everything watermark preparation reads
PrepSessions ==
    {[WithFile(DefaultSession, ValidFile) EXCEPT
          !.wm_text_key = t, !.wm_text_color_key = c,
          !.wm_opacity_key = o, !.preset_wm_bytes_key = b] :
        t \in Texts, c \in Colors, o \in {50, 100}, b \in {NoBytes, OtherLogo}}
PrepEnvs ==
    [wm_file : {NoBytes, GoodLogo, BadLogo, TinyLogo}, font : Fonts,
     faults : {[n \in {"a"} |-> "none"]}]

\* sessions that differ in the source file, with and without a text
\* watermark, in corner and tiled placement, with and without resizing
FileSessions ==
    {[WithFile(DefaultSession, f) EXCEPT
          !.wm_text_key = t, !.wm_pos_key = p, !.resize_val_state = v] :
        f \in SourceFiles, t \in {<<>>, <<"a">>}, p \in {"bottom-right", "tiled"},
        v \in {400, 1920}}
FileEnvs ==
    [wm_file : {NoBytes}, font : {GoodFont},
     faults : [{"a"} -> Faults]]

\* three uploaded files: an 800x600 JPEG, a 3000x2000 JPEG whose name gives
\* the same slug, and a text file
FileA == ValidFile
FileB == [ValidFile EXCEPT !.stem = "A", !.width = 3000, !.height = 2000]
FileC == [ValidFile EXCEPT !.stem = "c", !.suffix = <<".", "t", "x", "t">>]
Uploaded == [n \in {"a", "b", "c"} |->
                CASE n = "a" -> FileA [] n = "b" -> FileB [] OTHER -> FileC]

\* the result set an earlier batch left in the session
PrevResults ==
    LET ret == process_image(
                   NewCall(ValidFile, <<"", "old", 0, "jpeg">>, FALSE,
                           get_resize_config(DefaultSession), "JPEG", 80,
                           "none"), None)
    IN  [stored |-> TRUE, zip |-> <<<<ret.stats.filename, ret.bytes>>>>,
         files |-> <<<<ret.stats.filename, ret.bytes>>>>,
         report |-> <<ret.stats>>]

\* what the user set up for the watermark: a text, an uploaded logo, a
\* logo that cannot be decoded, or nothing
BatchWatermarks ==
    {[text |-> <<"a">>, wm_file |-> NoBytes],
     [text |-> <<>>, wm_file |-> GoodLogo],
     [text |-> <<>>, wm_file |-> BadLogo],
     [text |-> <<>>, wm_file |-> NoBytes]}

\* sessions with the three files uploaded and some of them selected
BatchSessions ==
    {[DefaultSession EXCEPT
          !.file_cache = Uploaded, !.selected_files = sel,
          !.wm_text_key = w.text, !.wm_pos_key = p, !.naming_mode_key = m,
          !.results = r] :
        sel \in SUBSET {"a", "b", "c"} \ {{}}, w \in BatchWatermarks,
        p \in {"bottom-right", "tiled"},
        m \in {"Keep Original", "Prefix + Sequence"},
        r \in {NoResults, PrevResults}}
BatchFaults ==
    {[n \in {"a", "b", "c"} |-> "none"],
     [n \in {"a", "b", "c"} |-> IF n = "a" THEN "open" ELSE "none"],
     [n \in {"a", "b", "c"} |-> IF n = "b" THEN "resize" ELSE "export"]}
BatchEnvs ==
    [wm_file : {w.wm_file : w \in BatchWatermarks}, font : {GoodFont},
     faults : BatchFaults]

\* list(st.session_state['selected_files']): the elements of a set in some
\* order
ListOf(S) ==
    {l \in [1..Cardinality(S) -> S] :
        \A i, j \in 1..Cardinality(S) : l[i] = l[j] => i = j}

\* byte strings handed to load_watermark_from_bytes: None, b"", bytes that
\* are no image, and images of several modes and sizes
WatermarkBytes ==
    {NoBytes, [NoBytes EXCEPT !.present = TRUE], BadLogo}
    \cup {[GoodLogo EXCEPT !.mode = m, !.alpha = a, !.width = w, !.height = h] :
              m \in {"RGBA", "RGB", "P"},
              a \in {<<0, 128, 255>>, <<255, 255, 255>>},
              w \in {1, 9, 10, 200, 10000, 10001},
              h \in {1, 10, 100, 10001}}

\* colour strings: no, one or two leading '#', then one to three pairs of
\* characters, or three single characters
ColorPairs == {<<"F", "F">>, <<"0", "0">>, <<"a", "9">>, <<"G", "G">>,
               <<"+", "1">>, <<"-", "1">>}
ColorStrings ==
    {h \o b : h \in {<<>>, <<"#">>, <<"#", "#">>},
              b \in {p \o q \o r : p, q, r \in ColorPairs}
                     \cup {p \o q : p, q \in ColorPairs}
                     \cup {<<"F", "F", "F">>, <<>>}}

\* RGBA images and opacities, in hundredths, handed to apply_opacity
OpacityImages ==
    {[mode |-> "RGBA", size |-> <<Len(a), 1>>, alpha |-> a] :
        a \in {<<0, 1, 128, 255>>, <<255, 255>>, <<0>>, <<3, 77, 200>>}}
Opacities == {-50, 0, 25, 50, 75, 100, 150}

\* images, formats, qualities and metadata handed to _export_image
ExportImages ==
    {[size |-> <<Len(p), 1>>, px |-> <<>>, pixels |-> p] :
        p \in {<<<<10, 20, 30, 0>>, <<10, 20, 30, 128>>, <<10, 20, 30, 255>>>>,
               <<<<0, 0, 0, 1>>, <<255, 255, 255, 77>>>>,
               <<<<200, 100, 0, 254>>>>}}
ExportFormats == {"JPEG", "PNG", "WEBP", "RGB"}
Qualities == {1, 50, 95}
ExifData == {"", "Exif"}

\* n times the character c
Rep(c, n) == [i \in 1..n |-> c]

\* file names: a stem and an extension of several lengths around
\* MAX_FILENAME_LENGTH, and short names with directories, dots, spaces and
\* characters that are removed
LongNames ==
    {Rep("a", n) \o (IF m = 0 THEN <<>> ELSE <<".">> \o Rep("b", m - 1)) :
        n \in {1, 250, 251, 252, 255, 256, 300},
        m \in {0, 4, 5, 254, 255, 256, 300}}
ShortNames ==
    {<<>>, <<".">>, <<".", ".">>, <<"/">>, <<"?">>, <<"?", "*">>, <<" ">>,
     <<"d", "/">>, <<"d", "/", ".">>, <<".", ".", "/", "e", "/", "p">>,
     <<"a", " ", "b", ".", "j">>, <<"a", ":", "\t", "b">>, <<".", "h">>,
     <<"x", ".", "t", ".", "g">>, <<"/", "?">>, <<"a", "/", "/", "b", "\n">>}
FileNames == LongNames \cup ShortNames

(***************************************************************************)
(* Specifications                                                          *)
(***************************************************************************)
InitResize ==
    /\ pc = "resize"
    /\ resize_args \in ResizeArgs
    /\ resize_ret = NoResizeRet
    /\ img_size = <<resize_args.orig_w, resize_args.orig_h>>
    /\ corner_args = NoCornerArgs
    /\ corner_pos = <<0, 0>>
    /\ tiled_args = NoTiledArgs
    /\ tiled_pasted = {}
    /\ tiled_log = NoTiledLog
    /\ IdleWatermark
    /\ IdleHandler
    /\ IdleLib

InitCorner ==
    /\ pc = "corner"
    /\ corner_args \in CornerArgs
    /\ corner_pos = <<0, 0>>
    /\ resize_args = NoResizeArgs
    /\ resize_ret = NoResizeRet
    /\ img_size = <<corner_args.new_w, corner_args.new_h>>
    /\ tiled_args = NoTiledArgs
    /\ tiled_pasted = {}
    /\ tiled_log = NoTiledLog
    /\ IdleWatermark
    /\ IdleHandler
    /\ IdleLib

InitTiled ==
    /\ pc = "tiled"
    /\ tiled_args \in TiledArgs
    /\ tiled_pasted = {}
    /\ tiled_log = NoTiledLog
    /\ resize_args = NoResizeArgs
    /\ resize_ret = NoResizeRet
    /\ img_size = <<tiled_args.new_w, tiled_args.new_h>>
    /\ corner_args = NoCornerArgs
    /\ corner_pos = <<0, 0>>
    /\ IdleWatermark
    /\ IdleHandler
    /\ IdleLib

\* a call _apply_watermark(img, wm_obj, config) about to be made
InitWatermark ==
    /\ pc = "watermark"
    /\ wm_args \in WmArgs
    /\ heap = [n \in {"img", "wm_obj"} |->
                  IF n = "img"
                  THEN [size |-> <<wm_args.new_w, wm_args.new_h>>, px |-> <<>>]
                  ELSE [size |-> <<wm_args.wm_w, wm_args.wm_h>>, px |-> <<>>]]
    /\ wm_ret = ""
    /\ resize_args = NoResizeArgs
    /\ resize_ret = NoResizeRet
    /\ img_size = <<wm_args.new_w, wm_args.new_h>>
    /\ corner_args = NoCornerArgs
    /\ corner_pos = <<0, 0>>
    /\ tiled_args = NoTiledArgs
    /\ tiled_pasted = {}
    /\ tiled_log = NoTiledLog
    /\ IdleHandler
    /\ IdleLib

\* process_image: new_w, new_h, scale_factor = _calculate_resize(...)
CalculateResize ==
    /\ pc = "resize"
    /\ resize_ret' = _calculate_resize(resize_args.orig_w, resize_args.orig_h,
                                       resize_args.config)
    /\ pc' = "resized"
    /\ UNCHANGED <<resize_args, img_size, corner_args, corner_pos,
                   tiled_args, tiled_pasted, tiled_log, watermarkVars, libVars,
                   handlerVars>>

\* process_image: if scale_factor != 1.0: img = img.resize((new_w, new_h))
ResizeImage ==
    /\ pc = "resized"
    /\ img_size' = ResizedSize(resize_args.orig_w, resize_args.orig_h, resize_ret)
    /\ pc' = "done_resize"
    /\ UNCHANGED <<resize_args, resize_ret, corner_args, corner_pos,
                   tiled_args, tiled_pasted, tiled_log, watermarkVars, libVars,
                   handlerVars>>

ApplyCornerWatermark ==
    /\ pc = "corner"
    /\ corner_pos' = _apply_corner_watermark(
                         corner_args.new_w, corner_args.new_h,
                         corner_args.wm_w, corner_args.wm_h,
                         corner_args.position, corner_args.margin)
    /\ pc' = "pasted_corner"
    /\ UNCHANGED <<resize_args, resize_ret, img_size, corner_args,
                   tiled_args, tiled_pasted, tiled_log, watermarkVars, libVars,
                   handlerVars>>

ApplyTiledWatermark ==
    /\ pc = "tiled"
    /\ tiled_pasted' = _apply_tiled_watermark(
                           tiled_args.new_w, tiled_args.new_h,
                           tiled_args.wm_w, tiled_args.wm_h, tiled_args.gap)
    /\ tiled_log' = TilingLog(tiled_args.new_w, tiled_args.new_h,
                              tiled_args.wm_w, tiled_args.wm_h, tiled_args.gap)
    /\ pc' = "pasted_tiled"
    /\ UNCHANGED <<resize_args, resize_ret, img_size, corner_args, corner_pos,
                   tiled_args, watermarkVars, libVars, handlerVars>>

\* the heap, the returned object and the log after a call that gave r
Watermarked(r) ==
    /\ heap' = r.heap
    /\ wm_ret' = r.ret
    /\ tiled_log' = r.log

\* process_image: img = _apply_watermark(img, wm_obj, resize_config)
ApplyWatermark ==
    /\ pc = "watermark"
    /\ Watermarked(_apply_watermark(heap, get_resize_config(wm_args.keys),
                                    tiled_log))
    /\ pc' = "watermarked"
    /\ UNCHANGED <<resize_args, resize_ret, img_size, corner_args, corner_pos,
                   tiled_args, tiled_pasted, wm_args, libVars,
                   handlerVars>>

IdleEngine ==
    /\ resize_args = NoResizeArgs
    /\ resize_ret = NoResizeRet
    /\ img_size = <<0, 0>>
    /\ corner_args = NoCornerArgs
    /\ corner_pos = <<0, 0>>
    /\ tiled_args = NoTiledArgs
    /\ tiled_pasted = {}
    /\ tiled_log = NoTiledLog
    /\ IdleWatermark

\* a direct call create_text_watermark(text, font_path, size_pt, color_hex)
InitCreateText ==
    /\ pc = "create_text"
    /\ session_state \in {[DefaultSession EXCEPT !.wm_text_key = t,
                                                !.wm_text_color_key = c] :
                              t \in Texts, c \in Colors}
    /\ env \in [wm_file : {NoBytes}, font : Fonts,
                 faults : {[n \in {} |-> "none"]}]
    /\ wm_obj = None
    /\ calls = NoCalls
    /\ frame = NoFrame
    /\ IdleEngine
    /\ IdleLib

\* the preview column about to render the selected file
InitPreview ==
    /\ pc = "preview"
    /\ \/ session_state \in PrepSessions /\ env \in PrepEnvs
       \/ session_state \in FileSessions /\ env \in FileEnvs
    /\ wm_obj = None
    /\ calls = NoCalls
    /\ frame = NoFrame
    /\ IdleEngine
    /\ IdleLib

CreateTextWatermark ==
    /\ pc = "create_text"
    /\ wm_obj' = create_text_watermark(session_state.wm_text_key, env.font,
                                       session_state.wm_text_color_key)
    /\ pc' = "text_created"
    /\ UNCHANGED <<engineVars, watermarkVars, libVars, session_state, env, calls, frame>>

\* the process_image call a handler makes for the file named fname, the
\* index-th of its list
CallFor(fname, index, asset) ==
    NewCall(session_state.file_cache[fname],
            generate_filename(session_state.file_cache[fname],
                              session_state.naming_mode_key,
                              session_state.naming_prefix_key,
                              FormatLower(session_state.out_fmt_key), index),
            asset # None, get_resize_config(session_state),
            session_state.out_fmt_key, session_state.out_quality_key,
            env.faults[fname])

\* preview: wm_obj = utils.prepare_watermark_object(...), then the call of
\* engine.process_image is entered; a raised exception ends in st.error
PreviewPrepare ==
    /\ pc = "preview"
    /\ \E target_file \in session_state.selected_files :
          /\ target_file \in DOMAIN session_state.file_cache
          /\ LET r == prepare_watermark_object(env.wm_file, env.font,
                                               session_state)
             IN  IF r.raised
                 THEN /\ pc' = "preview_done"
                      /\ frame' = [frame EXCEPT
                                      !.raised = TRUE,
                                      !.errors = Append(@, "watermark")]
                      /\ UNCHANGED <<wm_obj, calls>>
                 ELSE /\ pc' = "preview_call"
                      /\ wm_obj' = r.wm_obj
                      /\ calls' = [n \in {target_file} |->
                                      CallFor(n, 1, r.wm_obj)]
                      /\ UNCHANGED frame
    /\ UNCHANGED <<engineVars, watermarkVars, libVars, session_state, env>>

\* the steps of a process_image call
ValidateSource(id) ==
    /\ calls[id].step = "validate"
    /\ calls' = [calls EXCEPT ![id] = StepValidate(@)]
    /\ UNCHANGED <<pc, engineVars, watermarkVars, libVars, session_state, env, wm_obj,
                   frame>>

OpenSource(id) ==
    /\ calls[id].step = "open"
    /\ calls' = [calls EXCEPT ![id] = StepOpen(@)]
    /\ UNCHANGED <<pc, engineVars, watermarkVars, libVars, session_state, env, wm_obj,
                   frame>>

ResizeSource(id) ==
    /\ calls[id].step = "resize"
    /\ calls' = [calls EXCEPT ![id] = StepResize(@)]
    /\ UNCHANGED <<pc, engineVars, watermarkVars, libVars, session_state, env, wm_obj,
                   frame>>

\* the call and the shared asset after the watermark step gave r
Composited(id, r) ==
    /\ calls' = [calls EXCEPT ![id] = r.call]
    /\ wm_obj' = r.wm_obj

WatermarkSource(id) ==
    /\ calls[id].step = "watermark"
    /\ Composited(id, StepWatermark(calls[id], wm_obj))
    /\ UNCHANGED <<pc, engineVars, watermarkVars, libVars, session_state, env, frame>>

ExportSource(id) ==
    /\ calls[id].step = "export"
    /\ calls' = [calls EXCEPT ![id] = StepExport(@)]
    /\ UNCHANGED <<pc, engineVars, watermarkVars, libVars, session_state, env, wm_obj,
                   frame>>

\* preview: st.image(prev_bytes, ...) or, on an exception, st.error
PreviewShow ==
    /\ pc = "preview_call"
    /\ \E id \in DOMAIN calls :
          /\ calls[id].step = "done"
          /\ frame' = IF calls[id].ret.kind = "raised"
                      THEN [frame EXCEPT !.errors = Append(@, calls[id].ret.msg)]
                      ELSE [frame EXCEPT
                               !.results = Append(@, calls[id].ret.bytes)]
    /\ pc' = "preview_done"
    /\ UNCHANGED <<engineVars, watermarkVars, libVars, session_state, env, wm_obj,
                   calls>>

\* a call that has been entered and has not returned or raised
Running(c) == c.trace # <<>> /\ c.step # "done"

\* ThreadPoolExecutor(max_workers = max_threads): a submitted call is taken
\* up when a worker is free and every call submitted before it has been
\* taken up; a call made directly (preview) runs at once
PoolAdmits(id) ==
    \/ calls[id].trace # <<>>
    \/ /\ Cardinality({n \in DOMAIN calls : Running(calls[n])})
              < frame.max_threads
       /\ \A i, j \in 1..Len(frame.process_list) :
              (frame.process_list[j] = id /\ i < j
                   /\ frame.process_list[i] \in DOMAIN calls)
                  => calls[frame.process_list[i]].trace # <<>>

\* the outer try of the process button: an exception of the preparation
\* goes to the except clauses, which report it and end the handler
AfterPrepare_Continue(r) == "submit"

AfterPrepare(r) == IF r.raised THEN "batch_done" ELSE "submit"

\* process button: process_list = list(selected_files); wm_obj =
\* utils.prepare_watermark_object(...); resize_cfg = get_resize_config();
\* results = []; report = []
BatchPrepare ==
    /\ pc = "batch"
    /\ session_state.selected_files # {}
    /\ \E process_list \in ListOf(session_state.selected_files) :
          LET r == prepare_watermark_object(env.wm_file, env.font,
                                            session_state)
          IN  /\ wm_obj' = r.wm_obj
              /\ frame' = [frame EXCEPT
                              !.process_list = process_list,
                              !.raised = r.raised,
                              !.errors = IF r.raised
                                         THEN Append(@, <<"", "ValueError",
                                                          "watermark">>)
                                         ELSE @]
              /\ pc' = AfterPrepare(r)
    /\ UNCHANGED <<engineVars, watermarkVars, libVars, session_state, env, calls>>

\* submit loop: new_fname = engine.generate_filename(..., i + 1);
\* future = executor.submit(engine.process_image, ...); futures[future] = fname
SubmitFile ==
    /\ pc = "submit"
    /\ LET i == Cardinality(DOMAIN calls) + 1
           fname == frame.process_list[i]
       IN  /\ calls' = [n \in DOMAIN calls \cup {fname} |->
                           IF n = fname THEN CallFor(fname, i, wm_obj)
                           ELSE calls[n]]
           /\ pc' = IF i = Len(frame.process_list) THEN "collect"
                     ELSE "submit"
    /\ UNCHANGED <<engineVars, watermarkVars, libVars, session_state, env, wm_obj,
                   frame>>

\* body of the collect loop for the future of fname:
\* try: res_bytes, stats = fut.result(); zf.writestr(...); results.append(...);
\* report.append(stats)  except Exception as e: st.error(...)
Collect_Abort(f, fname, ret) ==
    IF ret.kind = "returned"
    THEN [f EXCEPT !.collected = @ \cup {fname},
                   !.zip = Append(@, <<ret.stats.filename, ret.bytes>>),
                   !.results = Append(@, <<ret.stats.filename, ret.bytes>>),
                   !.report = Append(@, ret.stats)]
    ELSE [f EXCEPT !.raised = TRUE,
                   !.errors = Append(@, <<"", ret.exc, ret.msg>>)]

Collect(f, fname, ret) ==
    IF ret.kind = "returned"
    THEN [f EXCEPT !.collected = @ \cup {fname},
                   !.zip = Append(@, <<ret.stats.filename, ret.bytes>>),
                   !.results = Append(@, <<ret.stats.filename, ret.bytes>>),
                   !.report = Append(@, ret.stats)]
    ELSE [f EXCEPT !.collected = @ \cup {fname},
                   !.errors = Append(@, <<fname, ret.exc, ret.msg>>)]

\* for fut in as_completed(futures): any future that is done and has not
\* been handed out yet; an exception leaving the loop body would end the
\* handler in the outer except clauses
CollectResult ==
    /\ pc = "collect"
    /\ \E fname \in DOMAIN calls \ frame.collected :
          /\ calls[fname].step = "done"
          /\ frame' = Collect(frame, fname, calls[fname].ret)
    /\ pc' = IF frame'.raised THEN "batch_done"
              ELSE IF frame'.collected = DOMAIN calls THEN "store"
              ELSE "collect"
    /\ UNCHANGED <<engineVars, watermarkVars, libVars, session_state, env, wm_obj,
                   calls>>

\* utils.safe_state_update('results', {'zip': ..., 'files': results,
\* 'report': report})
StoreResults ==
    /\ pc = "store"
    /\ session_state' = [session_state EXCEPT
                            !.results = [stored |-> TRUE, zip |-> frame.zip,
                                         files |-> frame.results,
                                         report |-> frame.report]]
    /\ pc' = "batch_done"
    /\ UNCHANGED <<engineVars, watermarkVars, libVars, env, wm_obj, calls, frame>>

\* the process button about to be pressed
InitBatch ==
    /\ pc = "batch"
    /\ session_state \in BatchSessions
    /\ env \in BatchEnvs
    /\ [text |-> session_state.wm_text_key, wm_file |-> env.wm_file]
           \in BatchWatermarks
    /\ wm_obj = None
    /\ calls = NoCalls
    /\ frame \in {[NoFrame EXCEPT !.max_threads = k] :
                      k \in MIN_THREADS..DEFAULT_THREADS}
    /\ IdleEngine
    /\ IdleLib

ProcessImage ==
    \E id \in DOMAIN calls :
        /\ PoolAdmits(id)
        /\ \/ ValidateSource(id)
           \/ OpenSource(id)
           \/ ResizeSource(id)
           \/ WatermarkSource(id)
           \/ ExportSource(id)

NextResize == CalculateResize \/ ResizeImage
NextCorner == ApplyCornerWatermark
NextTiled == ApplyTiledWatermark
NextWatermark == ApplyWatermark

SpecResize == InitResize /\ [][NextResize]_vars
SpecCorner == InitCorner /\ [][NextCorner]_vars
SpecTiled == InitTiled /\ [][NextTiled]_vars
SpecWatermark == InitWatermark /\ [][NextWatermark]_vars

NextPreview == CreateTextWatermark \/ PreviewPrepare \/ ProcessImage
                   \/ PreviewShow
SpecPreview == (InitCreateText \/ InitPreview) /\ [][NextPreview]_vars

\* what a library function handed back: its value, or its exception
Returns(value) == [kind |-> "returned", exc |-> "", msg |-> <<>>,
                   value |-> value]
Raises(exc, msg) == [kind |-> "raised", exc |-> exc, msg |-> msg]

\* a direct call load_watermark_from_bytes(wm_bytes)
InitLoadWatermark ==
    /\ pc = "load_watermark"
    /\ fn_args \in {[fn |-> "load_watermark_from_bytes", wm_bytes |-> b] :
                       b \in WatermarkBytes}
    /\ fn_ret = NoFnRet
    /\ fs = NoFiles
    /\ IdleEngine
    /\ IdleHandler

LoadReturn(r) == IF r.raised THEN Raises(r.exc, r.msg) ELSE Returns(r.wm)

LoadWatermarkFromBytes ==
    /\ pc = "load_watermark"
    /\ fn_ret' = LoadReturn(load_watermark_from_bytes(fn_args.wm_bytes))
    /\ pc' = "returned"
    /\ UNCHANGED <<engineVars, watermarkVars, handlerVars, fn_args, fs>>

\* a direct call validate_color_hex(color_hex)
InitValidateColor ==
    /\ pc = "validate_color"
    /\ fn_args \in {[fn |-> "validate_color_hex", color_hex |-> c] :
                       c \in ColorStrings}
    /\ fn_ret = NoFnRet
    /\ fs = NoFiles
    /\ IdleEngine
    /\ IdleHandler

ColorReturn(r) ==
    IF r.ok THEN Returns(r.rgb)
    ELSE Raises("ValidationError", <<"Invalid", "color">>)

ValidateColorHex ==
    /\ pc = "validate_color"
    /\ fn_ret' = ColorReturn(validate_color_hex(fn_args.color_hex))
    /\ pc' = "returned"
    /\ UNCHANGED <<engineVars, watermarkVars, handlerVars, fn_args, fs>>

(***************************************************************************)
(* The workspace: upload, selection, deletion                              *)
(*                                                                         *)
(* One action per button or widget that changes file_cache or              *)
(* selected_files; each ends with st.rerun(), and pc names the one that    *)
(* ran last.                                                               *)
(***************************************************************************)
UploadNames == {"a", "b", "c"}

\* the name save_uploaded_file gives a file whose own name is taken
Copy(name) == CASE name = "a" -> "a_1" [] name = "b" -> "b_1"
                [] name = "c" -> "c_1" [] OTHER -> name

\* what the uploader hands over in one run: up to MaxUploads files, each
\* with its name, whether save_uploaded_file succeeds on it, and whether a
\* file of its name was left in the temporary directory by a failed
\* os.remove
MaxUploads == 2
UploadedFiles == [name : UploadNames, saved : BOOLEAN, leftover : BOOLEAN]
UploadBatches == UNION {[1..n -> UploadedFiles] : n \in 1..MaxUploads}

\* the name utils.save_uploaded_file returns for the upload f: its own
\* name unless a file of that name is in the temporary directory
SavedName(f, cache) ==
    IF f.name \in DOMAIN cache \/ f.leftover THEN Copy(f.name) ELSE f.name

\* st.session_state['file_cache'][fname] = fpath
Cached(cache, fname) ==
    [n \in DOMAIN cache \cup {fname} |->
        IF n = fname THEN [ValidFile EXCEPT !.stem = fname] ELSE cache[n]]

\* del files_map[f] for the selected names that are keys
Remaining(cache, selected) ==
    [n \in DOMAIN cache \ selected |-> cache[n]]

InitWorkspace ==
    /\ pc = "workspace"
    /\ IdleHandler
    /\ IdleEngine
    /\ IdleLib

\* a button was pressed in a script run: session_state becomes ss
WorkspaceRun(label, ss) ==
    /\ pc \in {"workspace", "cleared", "uploaded", "selected_all",
               "deselected_all", "deleted", "toggled"}
    /\ pc' = label
    /\ session_state' = ss
    /\ UNCHANGED <<env, wm_obj, calls, frame, engineVars, watermarkVars,
                   libVars>>

ClearWorkspace ==
    WorkspaceRun("cleared",
                 [session_state EXCEPT !.file_cache = DefaultSession.file_cache,
                                       !.selected_files = {},
                                       !.results = NoResults])

\* for f in uploaded: fpath, fname = save_uploaded_file(f);
\* file_cache[fname] = fpath, or st.error when saving fails
RECURSIVE UploadAll(_, _)
UploadAll(cache, uploaded) ==
    IF uploaded = <<>> THEN cache
    ELSE UploadAll(IF Head(uploaded).saved
                   THEN Cached(cache, SavedName(Head(uploaded), cache))
                   ELSE cache,
                   Tail(uploaded))

\* the names given to the files of uploaded are new ones
RECURSIVE FreshNames(_, _)
FreshNames(cache, uploaded) ==
    IF uploaded = <<>> THEN TRUE
    ELSE IF ~Head(uploaded).saved THEN FreshNames(cache, Tail(uploaded))
    ELSE /\ SavedName(Head(uploaded), cache) \notin DOMAIN cache
         /\ FreshNames(Cached(cache, SavedName(Head(uploaded), cache)),
                       Tail(uploaded))

Upload ==
    \E uploaded \in UploadBatches :
        /\ FreshNames(session_state.file_cache, uploaded)
        /\ WorkspaceRun("uploaded",
               [session_state EXCEPT !.file_cache = UploadAll(@, uploaded)])

SelectAll ==
    /\ DOMAIN session_state.file_cache # {}
    /\ WorkspaceRun("selected_all",
                    [session_state EXCEPT
                        !.selected_files = DOMAIN session_state.file_cache])

DeselectAll ==
    /\ DOMAIN session_state.file_cache # {}
    /\ WorkspaceRun("deselected_all",
                    [session_state EXCEPT !.selected_files = {}])

\* a delete button that leaves the selection as it is
DeleteSelected_KeepSelection ==
    /\ DOMAIN session_state.file_cache # {}
    /\ session_state.selected_files # {}
    /\ WorkspaceRun("deleted",
                    [session_state EXCEPT
                        !.file_cache =
                            Remaining(@, session_state.selected_files)])

DeleteSelected ==
    /\ DOMAIN session_state.file_cache # {}
    /\ session_state.selected_files # {}
    /\ WorkspaceRun("deleted",
                    [session_state EXCEPT
                        !.file_cache =
                            Remaining(@, session_state.selected_files),
                        !.selected_files = {}])

\* the select button under one file of the grid
ToggleFile ==
    \E fname \in DOMAIN session_state.file_cache :
        WorkspaceRun("toggled",
                     [session_state EXCEPT
                         !.selected_files =
                             IF fname \in @ THEN @ \ {fname}
                             ELSE @ \cup {fname}])

NextWorkspace ==
    \/ ClearWorkspace
    \/ Upload
    \/ SelectAll
    \/ DeselectAll
    \/ DeleteSelected
    \/ ToggleFile
SpecWorkspace == InitWorkspace /\ [][NextWorkspace]_vars

(***************************************************************************)
(* The thumbnail cache: get_thumbnail, remove_thumbnail, rotate_image_file *)
(*                                                                         *)
(* Each operator takes the disk and returns the value returned and the     *)
(* disk left behind.  A file written gets the time of the disk as its      *)
(* modification time.  fault says that the library or the operating system *)
(* call of the function fails.                                             *)
(***************************************************************************)
MaxClock == 3
MaxVersion == 3

PhotoPath == <<"photo", ".jpg">>

\* thumb_path = f"{file_path}.thumb.jpg"
ThumbPath(file_path) == Append(file_path, ".thumb.jpg")

\* if os.path.exists(thumb_path): ... if thumb_mtime >= img_mtime
UpToDate_NotStrict(disk) ==
    disk.thumb.exists /\ disk.thumb.mtime >= disk.file.mtime

\* if os.path.exists(thumb_path): ... if thumb_mtime > img_mtime
UpToDate(disk) ==
    disk.thumb.exists /\ disk.thumb.mtime > disk.file.mtime

\* img.save(thumb_path, "JPEG", quality=70, optimize=True)
SaveThumbnail(disk) ==
    [disk EXCEPT !.thumb = [exists |-> TRUE, of |-> disk.file.version,
                            mtime |-> disk.clock]]

get_thumbnail(disk, file_path, fault) ==
    IF UpToDate(disk) THEN [ret |-> ThumbPath(file_path), disk |-> disk]
    ELSE IF fault THEN [ret |-> "None", disk |-> disk]
    ELSE [ret |-> ThumbPath(file_path), disk |-> SaveThumbnail(disk)]

remove_thumbnail(disk, fault) ==
    IF disk.thumb.exists /\ ~fault
    THEN [ret |-> TRUE, disk |-> [disk EXCEPT !.thumb = NoThumb]]
    ELSE [ret |-> FALSE, disk |-> disk]

\* rotated.save(file_path, **save_kwargs)
SaveRotated(disk) ==
    [disk EXCEPT !.file = [version |-> @.version + 1, mtime |-> disk.clock]]

rotate_image_file(disk, angle, fault, remove_fault) ==
    IF fault THEN [ret |-> FALSE, disk |-> disk]
    ELSE [ret |-> TRUE,
          disk |-> remove_thumbnail(SaveRotated(disk), remove_fault).disk]

InitThumbnails ==
    /\ pc = "thumbnails"
    /\ fn_args = NoFnArgs
    /\ fn_ret = NoFnRet
    /\ fs = NoFiles
    /\ IdleEngine
    /\ IdleHandler

\* r, the result of a library function on the disk, becomes the state
DiskCall(args, r) ==
    /\ fn_args' = args
    /\ fn_ret' = Returns(r.ret)
    /\ fs' = r.disk
    /\ UNCHANGED <<pc, engineVars, watermarkVars, handlerVars>>

GetThumbnail ==
    /\ pc = "thumbnails"
    /\ \E fault \in BOOLEAN :
          DiskCall([fn |-> "get_thumbnail", file_path |-> PhotoPath],
                   get_thumbnail(fs, PhotoPath, fault))

RemoveThumbnail ==
    /\ pc = "thumbnails"
    /\ \E fault \in BOOLEAN :
          DiskCall([fn |-> "remove_thumbnail", file_path |-> PhotoPath],
                   remove_thumbnail(fs, fault))

RotateImageFile ==
    /\ pc = "thumbnails"
    /\ fs.file.version < MaxVersion
    /\ \E angle \in {90, -90, 180}, fault, remove_fault \in BOOLEAN :
          DiskCall([fn |-> "rotate_image_file", file_path |-> PhotoPath,
                    angle |-> angle],
                   rotate_image_file(fs, angle, fault, remove_fault))

\* another program writes the image file
ModifyFile ==
    /\ pc = "thumbnails"
    /\ fs.file.version < MaxVersion
    /\ fn_args' = [fn |-> "modify"]
    /\ fn_ret' = NoFnRet
    /\ fs' = [fs EXCEPT !.file = [version |-> @.version + 1,
                                  mtime |-> fs.clock]]
    /\ UNCHANGED <<pc, engineVars, watermarkVars, handlerVars>>

\* time passes
Tick ==
    /\ pc = "thumbnails"
    /\ fs.clock < MaxClock
    /\ fn_args' = [fn |-> "tick"]
    /\ fn_ret' = NoFnRet
    /\ fs' = [fs EXCEPT !.clock = @ + 1]
    /\ UNCHANGED <<pc, engineVars, watermarkVars, handlerVars>>

NextThumbnails ==
    \/ GetThumbnail
    \/ RemoveThumbnail
    \/ RotateImageFile
    \/ ModifyFile
    \/ Tick
SpecThumbnails == InitThumbnails /\ [][NextThumbnails]_vars

\* a direct call apply_opacity(image, opacity)
InitApplyOpacity ==
    /\ pc = "apply_opacity"
    /\ fn_args \in {[fn |-> "apply_opacity", image |-> i, opacity |-> o] :
                       i \in OpacityImages, o \in Opacities}
    /\ fn_ret = NoFnRet
    /\ fs = NoFiles
    /\ IdleEngine
    /\ IdleHandler

ApplyOpacity ==
    /\ pc = "apply_opacity"
    /\ fn_ret' = Returns(apply_opacity(fn_args.image, fn_args.opacity))
    /\ pc' = "returned"
    /\ UNCHANGED <<engineVars, watermarkVars, handlerVars, fn_args, fs>>

\* a direct call _export_image(img, output_fmt, quality, exif_data)
InitExport ==
    /\ pc = "export_image"
    /\ fn_args \in {[fn |-> "_export_image", img |-> i, output_fmt |-> f,
                      quality |-> q, exif_data |-> e] :
                       i \in ExportImages, f \in ExportFormats,
                       q \in Qualities, e \in ExifData}
    /\ fn_ret = NoFnRet
    /\ fs = NoFiles
    /\ IdleEngine
    /\ IdleHandler

\* img.save(output_buffer, **save_kwargs) without a format, on a buffer
\* that has no name, raises ValueError
SaveReturn(saved) ==
    IF "format" \in DOMAIN saved.kwargs THEN Returns(saved)
    ELSE Raises("ValueError", <<"unknown", "file", "extension">>)

ExportImage ==
    /\ pc = "export_image"
    /\ fn_ret' = SaveReturn(_export_image(fn_args.img, fn_args.output_fmt,
                                          fn_args.quality, fn_args.exif_data))
    /\ pc' = "returned"
    /\ UNCHANGED <<engineVars, watermarkVars, handlerVars, fn_args, fs>>

\* a direct call sanitize_filename(filename)
InitSanitize ==
    /\ pc = "sanitize_filename"
    /\ fn_args \in {[fn |-> "sanitize_filename", filename |-> f] :
                       f \in FileNames}
    /\ fn_ret = NoFnRet
    /\ fs = NoFiles
    /\ IdleEngine
    /\ IdleHandler

SanitizeFilename ==
    /\ pc = "sanitize_filename"
    /\ fn_ret' = Returns(sanitize_filename(fn_args.filename))
    /\ pc' = "returned"
    /\ UNCHANGED <<engineVars, watermarkVars, handlerVars, fn_args, fs>>

NextBatch == BatchPrepare \/ SubmitFile \/ ProcessImage \/ CollectResult
                 \/ StoreResults
SpecBatch == InitBatch /\ [][NextBatch]_vars

InitLibrary ==
    \/ InitLoadWatermark
    \/ InitValidateColor
    \/ InitApplyOpacity
    \/ InitSanitize
    \/ InitExport
NextLibrary ==
    \/ LoadWatermarkFromBytes
    \/ ValidateColorHex
    \/ ApplyOpacity
    \/ SanitizeFilename
    \/ ExportImage
SpecLibrary == InitLibrary /\ [][NextLibrary]_vars

Init == InitResize \/ InitCorner \/ InitTiled \/ InitWatermark
Next == CalculateResize \/ ResizeImage \/ ApplyCornerWatermark
            \/ ApplyTiledWatermark \/ ApplyWatermark
Spec == Init /\ [][Next]_vars

(***************************************************************************)
(* Tiled placement: C1, C2                                                 *)
(***************************************************************************)
\* the 50x50 corner regions of a canvas, by their origins
CornerOrigins(new_w, new_h) ==
    {<<0, 0>>, <<new_w - 50, 0>>, <<0, new_h - 50>>, <<new_w - 50, new_h - 50>>}

\* the opaque tile pasted at <<row, col>> has a pixel in the region at origin o
TileCoversRegion(rc, o, a) ==
    LET x == TileX(rc[1], rc[2], StepX(a.wm_w, a.gap))
        y == TileY(rc[1], StepY(a.wm_h, a.gap))
    IN  /\ x < o[1] + 50 /\ x + a.wm_w > o[1]
        /\ y < o[2] + 50 /\ y + a.wm_h > o[2]
        /\ x < a.new_w /\ x + a.wm_w > 0
        /\ y < a.new_h /\ y + a.wm_h > 0

\* C1: on the 1000x3000 canvas with an opaque 100x100 tile and gap 20, each
\* of the four 50x50 corner regions holds a pixel of some pasted tile.
C1_TallCanvasCornersCovered ==
    (pc = "pasted_tiled" /\ tiled_args = TallCanvas) =>
        \A o \in CornerOrigins(tiled_args.new_w, tiled_args.new_h) :
            \E rc \in tiled_pasted : TileCoversRegion(rc, o, tiled_args)

\* every lattice tile whose bounding box can meet the canvas lies in this
\* window of rows and columns: rows 0..new_h/step_y meet it vertically, and
\* in row r the columns near -r/2 .. new_w/step_x - r/2 meet it horizontally
LatticeWindow(a) ==
    LET R == a.new_h \div StepY(a.wm_h, a.gap)
        C == a.new_w \div StepX(a.wm_w, a.gap)
    IN  ((-1)..(R + 1)) \X ((-(R \div 2 + 3))..(C + 2))

IntersectingTiles(a) ==
    {rc \in LatticeWindow(a) :
        Intersects(TileX(rc[1], rc[2], StepX(a.wm_w, a.gap)),
                   TileY(rc[1], StepY(a.wm_h, a.gap)),
                   a.wm_w, a.wm_h, a.new_w, a.new_h)}

\* C2: the tiles pasted are exactly the lattice tiles whose bounding box
\* intersects the canvas; the iterated ranges omit none of them.
C2_PastesEveryIntersectingTile ==
    pc = "pasted_tiled" => tiled_pasted = IntersectingTiles(tiled_args)

(***************************************************************************)
(* Corner placement: C3, C4                                                *)
(***************************************************************************)
\* C3 as stated: the pasted offset always lies in
\* [0, canvas_w - wm_w] x [0, canvas_h - wm_h].
C3_OffsetAlwaysInsideCanvas ==
    pc = "pasted_corner" =>
        /\ 0 <= corner_pos[1] /\ corner_pos[1] <= corner_args.new_w - corner_args.wm_w
        /\ 0 <= corner_pos[2] /\ corner_pos[2] <= corner_args.new_h - corner_args.wm_h

\* C3 amended: the offsets are never negative; in each dimension where the
\* watermark fits the canvas the offset is at most canvas - watermark, and
\* where the watermark is larger than the canvas the offset is 0.
C3_OffsetClamped ==
    pc = "pasted_corner" =>
        /\ corner_pos[1] >= 0 /\ corner_pos[2] >= 0
        /\ corner_args.wm_w <= corner_args.new_w
              => corner_pos[1] <= corner_args.new_w - corner_args.wm_w
        /\ corner_args.wm_h <= corner_args.new_h
              => corner_pos[2] <= corner_args.new_h - corner_args.wm_h
        /\ corner_args.wm_w > corner_args.new_w => corner_pos[1] = 0
        /\ corner_args.wm_h > corner_args.new_h => corner_pos[2] = 0

\* the margin pushes the table position of a fitting watermark off the canvas
\* and the clamp brings it back to 0
C3_Witness ==
    /\ pc = "pasted_corner"
    /\ corner_args.position = "bottom-right"
    /\ corner_args.wm_w <= corner_args.new_w
    /\ corner_args.wm_h > corner_args.new_h
    /\ corner_args.new_w - corner_args.wm_w - corner_args.margin < 0
    /\ corner_pos = <<0, 0>>

\* the table of section 4.3, written out per position
C4_TableX(a) ==
    CASE a.position \in {"top-left", "bottom-left"} -> a.margin
      [] a.position \in {"top-right", "bottom-right"} -> a.new_w - a.wm_w - a.margin
      [] a.position = "center" -> (a.new_w - a.wm_w) \div 2

C4_TableY(a) ==
    CASE a.position \in {"top-left", "top-right"} -> a.margin
      [] a.position \in {"bottom-left", "bottom-right"} -> a.new_h - a.wm_h - a.margin
      [] a.position = "center" -> (a.new_h - a.wm_h) \div 2

C4_TableInside(a) ==
    /\ 0 <= C4_TableX(a) /\ C4_TableX(a) <= a.new_w - a.wm_w
    /\ 0 <= C4_TableY(a) /\ C4_TableY(a) <= a.new_h - a.wm_h

\* C4: whenever the table position lies inside the canvas bounds, the paste
\* is exactly at the table position (the halves of center are whole pixels,
\* rounded down; the margin plays no part for center).
C4_PastesAtTablePosition ==
    (pc = "pasted_corner" /\ C4_TableInside(corner_args)) =>
        corner_pos = <<C4_TableX(corner_args), C4_TableY(corner_args)>>

C4_Witness ==
    /\ pc = "pasted_corner"
    /\ corner_args.position = "center"
    /\ corner_args.margin > 0
    /\ (corner_args.new_w - corner_args.wm_w) % 2 = 1
    /\ corner_args.new_h - corner_args.wm_h >= 2
    /\ C4_TableInside(corner_args)
    /\ corner_pos[1] > 0

(***************************************************************************)
(* Resize calculator: C5 .. C10                                            *)
(***************************************************************************)
Returned == pc \in {"resized", "done_resize"}
Identity ==
    /\ resize_ret.new_w = resize_args.orig_w
    /\ resize_ret.new_h = resize_args.orig_h
    /\ resize_ret.scale_factor = FOne

InRange(n) == MIN_IMAGE_DIMENSION <= n /\ n <= MAX_IMAGE_DIMENSION
ValidSource == InRange(resize_args.orig_w) /\ InRange(resize_args.orig_h)

\* C5: Max Side, resize enabled, a valid source whose larger side exceeds
\* value (value within the limits the resize control accepts): the larger
\* side of the result, and of the image process_image goes on with, is
\* exactly value.
C5_MaxSideLargerSideIsValue ==
    (/\ pc = "done_resize"
     /\ resize_args.config.enabled
     /\ resize_args.config.mode = "Max Side"
     /\ ValidSource
     /\ InRange(resize_args.config.value)
     /\ Max(resize_args.orig_w, resize_args.orig_h) > resize_args.config.value)
    => /\ Max(resize_ret.new_w, resize_ret.new_h) = resize_args.config.value
       /\ Max(img_size[1], img_size[2]) = resize_args.config.value

\* C6: the result is (orig_w, orig_h, 1.0) when resize is disabled, and in
\* Max Side mode when neither side exceeds value.
C6_IdentityWhenDisabledOrWithin ==
    (/\ Returned
     /\ \/ ~resize_args.config.enabled
        \/ /\ resize_args.config.mode = "Max Side"
           /\ Max(resize_args.orig_w, resize_args.orig_h) <= resize_args.config.value)
    => Identity

\* Max Side with a value above both sides: an upscale is on offer
C6_Witness ==
    /\ pc = "resized"
    /\ resize_args.config.enabled
    /\ resize_args.config.mode = "Max Side"
    /\ InRange(resize_args.config.value)
    /\ ValidSource
    /\ Max(resize_args.orig_w, resize_args.orig_h) < resize_args.config.value
    /\ Identity

\* a * b / c rounded to the nearest integer, ties to even, for a, b, c > 0
RoundRatio(a, b, c) ==
    LET q == (a * b) \div c
        r == (a * b) % c
    IN  IF 2 * r > c \/ (2 * r = c /\ q % 2 = 1) THEN q + 1 ELSE q

\* C7: Exact Width gives (value, round(orig_h * value / orig_w),
\* value / orig_w) and Exact Height the same with the sides swapped; stated
\* for the values the resize control accepts and sources and results within
\* the supported dimensions.
C7_ExactModesRound ==
    LET a == resize_args
        v == a.config.value
    IN  (/\ Returned /\ a.config.enabled /\ ValidSource /\ InRange(v))
        => /\ (a.config.mode = "Exact Width"
                 /\ InRange(RoundRatio(a.orig_h, v, a.orig_w)))
              => /\ resize_ret.new_w = v
                 /\ resize_ret.new_h = RoundRatio(a.orig_h, v, a.orig_w)
                 /\ resize_ret.scale_factor = TrueDiv(v, a.orig_w)
           /\ (a.config.mode = "Exact Height"
                 /\ InRange(RoundRatio(a.orig_w, v, a.orig_h)))
              => /\ resize_ret.new_h = v
                 /\ resize_ret.new_w = RoundRatio(a.orig_w, v, a.orig_h)
                 /\ resize_ret.scale_factor = TrueDiv(v, a.orig_h)

\* C8: _calculate_resize never raises; with value <= 0 in any mode, and
\* whenever the computation fails, the result is (orig_w, orig_h, 1.0).
C8_NeverRaisesFallsBack ==
    Returned =>
        /\ ~resize_ret.raised
        /\ (resize_args.config.enabled /\ resize_args.config.value <= 0)
              => Identity
        /\ (/\ resize_args.config.enabled
            /\ ResizeTry(resize_args.orig_w, resize_args.orig_h,
                         resize_args.config).exc)
              => Identity

C8_Witness ==
    /\ pc = "resized"
    /\ resize_args.config.enabled
    /\ resize_args.config.mode = "Exact Width"
    /\ resize_args.config.value <= 0
    /\ ValidSource
    /\ Identity
    /\ ~resize_ret.raised

\* |n - o * s| < 1 for the int n, the int o and the float s, on the exact
\* product o * s
WithinOnePixel(n, o, s) ==
    LET p == ExactMul(o, s)
        i == TruncBits(p.sgn, p.bits, p.exp)
        frac == p.sgn # 0 /\ p.exp < 0
                  /\ \E k \in Max(1, Len(p.bits) + p.exp + 1)..Len(p.bits) :
                        p.bits[k] = 1
    IN  \/ n = i
        \/ frac /\ p.sgn > 0 /\ n = i + 1
        \/ frac /\ p.sgn < 0 /\ n = i - 1

\* C9: in Max Side mode new_w and new_h differ from orig_w * s and
\* orig_h * s by less than one pixel, s being the returned scale factor;
\* 4000x2000 with value 1000 gives (1000, 500, 0.25).
C9_MaxSideAspectWithinOnePixel ==
    (Returned /\ resize_args.config.enabled
        /\ resize_args.config.mode = "Max Side")
    => /\ WithinOnePixel(resize_ret.new_w, resize_args.orig_w,
                         resize_ret.scale_factor)
       /\ WithinOnePixel(resize_ret.new_h, resize_args.orig_h,
                         resize_ret.scale_factor)
       /\ (resize_args.orig_w = 4000 /\ resize_args.orig_h = 2000
             /\ resize_args.config.value = 1000)
          => /\ resize_ret.new_w = 1000 /\ resize_ret.new_h = 500
             /\ resize_ret.scale_factor = TrueDiv(1, 4)

\* a downscale whose smaller side is not a whole number of pixels
C9_Witness ==
    /\ pc = "resized"
    /\ resize_args.config.enabled
    /\ resize_args.config.mode = "Max Side"
    /\ resize_ret.scale_factor # FOne
    /\ resize_ret.new_w < resize_args.orig_w
    /\ resize_ret.new_h * resize_args.orig_w # resize_ret.new_w * resize_args.orig_h

\* C10: for a source with positive dimensions and any mode and value, both
\* returned dimensions, and both sides of the image process_image goes on
\* with, are at least 1.
C10_DimensionsAtLeastOne ==
    (Returned /\ resize_args.orig_w >= 1 /\ resize_args.orig_h >= 1)
    => /\ resize_ret.new_w >= 1 /\ resize_ret.new_h >= 1
       /\ pc = "done_resize" => (img_size[1] >= 1 /\ img_size[2] >= 1)

\* a computation that reached a zero or negative size before validation
C10_Witness ==
    /\ pc = "done_resize"
    /\ resize_args.config.enabled
    /\ resize_args.config.mode = "Exact Height"
    /\ resize_args.config.value <= 0
    /\ resize_ret.new_h >= 1
    /\ img_size = <<resize_args.orig_w, resize_args.orig_h>>

(***************************************************************************)
(* Watermark scaling: C11                                                  *)
(***************************************************************************)
WatermarkApplied == pc = "watermarked"

\* the size the scale fraction wm_scale_key / 100 asks for, fractions of a
\* pixel dropped
ScaledWidth == Max(10, (wm_args.new_w * wm_args.keys.wm_scale_key) \div 100)
ScaledHeight == Max(10, (wm_args.wm_h * ScaledWidth) \div wm_args.wm_w)

\* C11: before placement the watermark is resized to width
\* max(10, canvas_w * scale) and height max(10, wm_h * target_width / wm_w),
\* for every scale fraction in (0, 1] and every placement mode.
C11_ResizedToScaleOfCanvas ==
    WatermarkApplied =>
        heap["wm_resized"].size = <<ScaledWidth, ScaledHeight>>

(***************************************************************************)
(* Tiled grid: C12                                                         *)
(***************************************************************************)
CeilDiv(a, b) == -((-a) \div b)

TiledApplied == pc = "pasted_tiled"

\* the base grid, read off the logged ranges (start = -buffer = -base)
LoggedBaseRows == -tiled_log.start_row
LoggedBaseCols == -tiled_log.start_col

StepsAsClaimed ==
    /\ tiled_log.step_x = Max(10, tiled_args.wm_w + tiled_args.gap)
    /\ tiled_log.step_y = Max(10, tiled_args.wm_h + tiled_args.gap)

\* C12 as stated: in tiled mode step_x = max(10, wm_w + gap),
\* step_y = max(10, wm_h + gap) and the base grid is
\* rows = ceil(canvas_h / step_y) + 2, cols = ceil(canvas_w / step_x) + 2,
\* for every canvas, tile and gap.
C12_StepsAndCeilGrid ==
    TiledApplied =>
        /\ StepsAsClaimed
        /\ LoggedBaseRows = CeilDiv(tiled_args.new_h, tiled_log.step_y) + 2
        /\ LoggedBaseCols = CeilDiv(tiled_args.new_w, tiled_log.step_x) + 2

\* C12, amended: the steps are as stated and the base grid is
\* rows = floor(canvas_h / step_y) + 2, cols = floor(canvas_w / step_x) + 2.
C12_StepsAndFloorGrid ==
    TiledApplied =>
        /\ StepsAsClaimed
        /\ LoggedBaseRows = (tiled_args.new_h \div tiled_log.step_y) + 2
        /\ LoggedBaseCols = (tiled_args.new_w \div tiled_log.step_x) + 2

\* a canvas whose sides are not multiples of the steps
C12_Witness ==
    /\ TiledApplied
    /\ tiled_args.new_h % tiled_log.step_y # 0
    /\ tiled_args.new_w % tiled_log.step_x # 0
    /\ LoggedBaseRows < CeilDiv(tiled_args.new_h, tiled_log.step_y) + 2

(***************************************************************************)
(* Frame of _apply_watermark: C13                                          *)
(***************************************************************************)
TiledMode == wm_args.keys.wm_pos_key = "tiled"

BatchStarted == pc \in {"submit", "collect", "store", "batch_done"}

\* the asset the handler prepared before it submitted anything
Prepared ==
    prepare_watermark_object(env.wm_file, env.font, session_state).wm_obj

\* the call id with its own arguments, not yet entered
Alone(id) ==
    NewCall(calls[id].file, calls[id].filename, calls[id].wm_given,
            calls[id].config, calls[id].output_fmt, calls[id].quality,
            calls[id].fault)

Returned_(id) ==
    calls[id].step = "done" /\ calls[id].ret.kind = "returned"
Raised_(id) ==
    calls[id].step = "done" /\ calls[id].ret.kind = "raised"

\* C14: whatever the interleaving of the calls on the worker pool, the
\* shared watermark asset stays as it was prepared, every call holds the
\* configuration the handler computed, and what a finished call handed back
\* (bytes and stats, or its exception) is what process_image gives for the
\* same arguments when it runs alone.
C14_InterleavingIndependent ==
    (BatchStarted /\ ~frame.raised) =>
        /\ wm_obj = Prepared
        /\ \A id \in DOMAIN calls :
              /\ calls[id].config = get_resize_config(session_state)
              /\ calls[id].step = "done" =>
                     calls[id].ret = process_image(Alone(id), Prepared)

\* a watermarked file has been returned by a call that was taken up after,
\* and finished before, a call that has composited and still runs
C14_Witness ==
    /\ pc \in {"submit", "collect"}
    /\ frame.max_threads = 2
    /\ \E i, j \in 1..Len(frame.process_list) :
          LET early == frame.process_list[i]
              late == frame.process_list[j]
          IN  /\ i < j
              /\ {early, late} \subseteq DOMAIN calls
              /\ Running(calls[early])
              /\ calls[early].step = "export"
              /\ calls[early].wm_given
              /\ Returned_(late)
              /\ calls[late].wm_given
              /\ calls[late].ret.bytes.img.px # <<>>

Range(seq) == {seq[i] : i \in 1..Len(seq)}
EntryOf(id) == <<calls[id].ret.stats.filename, calls[id].ret.bytes>>
ErrorsNaming(fname) ==
    {i \in 1..Len(frame.errors) : frame.errors[i][1] = fname}

\* C15: once files have been submitted the handler always runs to the end
\* and stores a result set; then every selected file has finished, a file
\* whose call returned is in the ZIP and in the stored result list and has
\* no error message, a file whose call raised has exactly one error message,
\* and there are no other entries and messages.
C15_OneFailureNeverAbortsBatch ==
    (BatchStarted /\ DOMAIN calls # {}) =>
        /\ ~frame.raised
        /\ pc = "batch_done" =>
              /\ session_state.results =
                     [stored |-> TRUE, zip |-> frame.zip,
                      files |-> frame.results, report |-> frame.report]
              /\ DOMAIN calls = session_state.selected_files
              /\ \A id \in session_state.selected_files :
                    /\ Returned_(id) \/ Raised_(id)
                    /\ Returned_(id) =>
                          /\ EntryOf(id) \in Range(session_state.results.zip)
                          /\ EntryOf(id) \in Range(session_state.results.files)
                          /\ ErrorsNaming(id) = {}
                    /\ Raised_(id) => Cardinality(ErrorsNaming(id)) = 1
              /\ Len(session_state.results.zip) =
                     Cardinality({id \in DOMAIN calls : Returned_(id)})
              /\ Len(session_state.results.files) =
                     Cardinality({id \in DOMAIN calls : Returned_(id)})
              /\ Len(frame.errors) =
                     Cardinality({id \in DOMAIN calls : Raised_(id)})

\* a finished batch of three files of which some failed and some succeeded
C15_Witness ==
    /\ pc = "batch_done"
    /\ Cardinality(DOMAIN calls) = 3
    /\ \E id \in DOMAIN calls : Returned_(id)
    /\ \E id \in DOMAIN calls : Raised_(id)
    /\ session_state.results.stored
    /\ Len(session_state.results.files) >= 1

\* C16: a step in which the preparation of the watermark has raised ends
\* the handler with no call submitted and with the stored result set left
\* as it was.
C16_PreparationFailureIsBatchLevel ==
    [][frame'.raised =>
          /\ pc' = "batch_done"
          /\ calls' = NoCalls
          /\ session_state'.results = session_state.results]_vars

\* the preparation raised for three selected files while an earlier result
\* set was stored
C16_Witness ==
    /\ pc = "batch_done"
    /\ frame.raised
    /\ Cardinality(session_state.selected_files) = 3
    /\ calls = NoCalls
    /\ session_state.results = PrevResults

(***************************************************************************)
(* Failures inside process_image: C17                                      *)
(***************************************************************************)
Done(c) == c.step = "done"

\* the environment failed call c while it loaded, resized, composited or
\* exported
FailedInside(c) ==
    \/ c.fault = "open" /\ \E i \in 1..Len(c.trace) : c.trace[i] = "open"
    \/ /\ c.fault = "resize" /\ c.resize.scale_factor # FOne
       /\ \E i \in 1..Len(c.trace) : c.trace[i] = "resize"
    \/ c.fault = "watermark" /\ \E i \in 1..Len(c.trace) : c.trace[i] = "watermark"
    \/ c.fault = "export" /\ \E i \in 1..Len(c.trace) : c.trace[i] = "export"

\* C17: any failure while loading, resizing, compositing or exporting inside
\* process_image reaches the caller as a ProcessingError that carries the
\* source filename.
C17_FailureIsProcessingError ==
    \A id \in DOMAIN calls :
        (Done(calls[id]) /\ FailedInside(calls[id])) =>
            /\ calls[id].ret.kind = "raised"
            /\ calls[id].ret.exc = "ProcessingError"
            /\ calls[id].ret.source = calls[id].file.stem

(***************************************************************************)
(* Validation first: C18                                                   *)
(***************************************************************************)
\* the checks in the order of the claim, TRUE when passed
Checks(f) ==
    << ~f.path_empty /\ f.exists /\ f.is_file /\ f.readable,
       \E x \in SUPPORTED_INPUT_FORMATS : x = lower(f.suffix),
       f.size <= MAX_FILE_SIZE,
       f.data_ok,
       /\ f.width >= MIN_IMAGE_DIMENSION /\ f.width <= MAX_IMAGE_DIMENSION
       /\ f.height >= MIN_IMAGE_DIMENSION /\ f.height <= MAX_IMAGE_DIMENSION >>

IsValidSource(f) == \A i \in 1..5 : Checks(f)[i]

FirstFailing(f) ==
    CHOOSE i \in 1..5 : ~Checks(f)[i] /\ \A j \in 1..(i - 1) : Checks(f)[j]

\* the messages that name each check
ReasonsOf(i) ==
    CASE i = 1 -> {"File path is empty", "File not found", "Not a file",
                   "File not readable"}
      [] i = 2 -> {"Unsupported format"}
      [] i = 3 -> {"File too large"}
      [] i = 4 -> {"Corrupted or invalid image"}
      [] i = 5 -> {"Image too small", "Image too large"}

\* C18: process_image validates the source before anything else and an
\* invalid file is never partially processed (no open, resize, composite or
\* encode, no bytes or stats); the ValidationError names the first failing
\* check in the order path, extension, size, corrupted data, dimensions.
C18_ValidatesFirstReportsFirstFailure ==
    \A id \in DOMAIN calls :
        LET c == calls[id]
        IN  /\ c.trace # <<>> => c.trace[1] = "validate"
            /\ (Done(c) /\ ~IsValidSource(c.file)) =>
                   /\ c.trace = <<"validate">>
                   /\ c.img = NoImage
                   /\ c.ret.kind = "raised"
                   /\ c.ret.exc = "ValidationError"
                   /\ c.ret.msg \in ReasonsOf(FirstFailing(c.file))
                   /\ c.ret.bytes = NoRet.bytes
                   /\ c.ret.stats = NoRet.stats

\* an oversized file of an unsupported extension was refused for its
\* extension
C18_Witness ==
    \E id \in DOMAIN calls :
        /\ Done(calls[id])
        /\ ~Checks(calls[id].file)[2]
        /\ ~Checks(calls[id].file)[3]
        /\ calls[id].ret.msg = "Unsupported format"

(***************************************************************************)
(* Text priority: C19                                                      *)
(***************************************************************************)
PreviewPrepared == pc \in {"preview_call", "preview_done"}

TextGiven == strip(session_state.wm_text_key) # <<>>

\* C19: whenever the text field is non-empty after stripping, the asset
\* prepare_watermark_object returns is the rendered text, whatever logo is
\* also present; the logo is used only when the text is empty.
C19_TextHasPriority ==
    PreviewPrepared =>
        /\ TextGiven =>
               /\ ~frame.raised
               /\ wm_obj.of = "text"
               /\ wm_obj.text = strip(session_state.wm_text_key)
        /\ wm_obj.of = "logo" => ~TextGiven

(***************************************************************************)
(* No watermark: C20                                                       *)
(***************************************************************************)
OnlyWhitespace(text) == \A i \in 1..Len(text) : text[i] \in Whitespace

\* C20: create_text_watermark returns None, without raising, for every
\* empty or whitespace-only text, and process_image given no watermark
\* asset completes normally with no compositing step.
C20_BlankTextNoneAndNoCompositing ==
    /\ (pc = "text_created" /\ OnlyWhitespace(session_state.wm_text_key))
           => wm_obj = None
    /\ \A id \in DOMAIN calls :
           LET c == calls[id]
           IN  ~c.wm_given =>
                   /\ \A i \in 1..Len(c.trace) : c.trace[i] # "watermark"
                   /\ (Done(c) /\ IsValidSource(c.file) /\ ~FailedInside(c)) =>
                          /\ c.ret.kind = "returned"
                          /\ c.ret.bytes.img.px = <<>>

\* a text of whitespace only gave None
C20_Witness ==
    /\ pc = "text_created"
    /\ session_state.wm_text_key # <<>>
    /\ OnlyWhitespace(session_state.wm_text_key)
    /\ session_state.wm_text_color_key = White
    /\ env.font.renders
    /\ wm_obj = None

(***************************************************************************)
(* Loading a watermark: C21                                                *)
(***************************************************************************)
Called(fn) == pc = "returned" /\ fn_args.fn = fn

Mentions(msg, word) == \E i \in 1..Len(msg) : msg[i] = word

\* C21: load_watermark_from_bytes either returns an RGBA image of positive
\* width and height or raises ValueError; for missing or empty bytes it
\* raises with a message that mentions "empty", for bytes that are no image
\* it raises, and in both cases nothing is returned.
C21_ReturnsRgbaOrFails ==
    Called("load_watermark_from_bytes") =>
        /\ \/ /\ fn_ret.kind = "returned"
              /\ fn_ret.value.mode = "RGBA"
              /\ fn_ret.value.size[1] > 0
              /\ fn_ret.value.size[2] > 0
           \/ fn_ret.kind = "raised" /\ fn_ret.exc = "ValueError"
        /\ (~fn_args.wm_bytes.present \/ fn_args.wm_bytes.empty) =>
              fn_ret.kind = "raised" /\ Mentions(fn_ret.msg, "empty")
        /\ ~fn_args.wm_bytes.decodable => fn_ret.kind = "raised"

\* b"" has been refused
C21_Witness ==
    /\ Called("load_watermark_from_bytes")
    /\ fn_args.wm_bytes.present
    /\ fn_args.wm_bytes.empty
    /\ fn_ret.kind = "raised"

(***************************************************************************)
(* Opacity: C22                                                            *)
(***************************************************************************)
\* the opacity brought into [0, 1], in hundredths
Clamped(opacity) == IF opacity < 0 THEN 0 ELSE IF opacity > 100 THEN 100
                    ELSE opacity

\* C22: apply_opacity with an opacity of 1.0 or more returns the image it
\* was given, unchanged; with a smaller opacity every alpha value becomes
\* the old value times the opacity clamped to [0, 1], so none increases,
\* and a negative opacity makes every value 0.
C22_OpacityScalesAlpha ==
    Called("apply_opacity") =>
        LET old == fn_args.image
            new == fn_ret.value
            o == fn_args.opacity
        IN  /\ fn_ret.kind = "returned"
            /\ o >= 100 => new = old
            /\ o < 100 =>
                  /\ new.size = old.size /\ new.mode = old.mode
                  /\ Len(new.alpha) = Len(old.alpha)
                  /\ \A i \in 1..Len(old.alpha) :
                        /\ 100 * new.alpha[i] <= old.alpha[i] * Clamped(o)
                        /\ 100 * new.alpha[i] > old.alpha[i] * Clamped(o) - 100
                        /\ new.alpha[i] <= old.alpha[i]
                        /\ o < 0 => new.alpha[i] = 0

\* a negative opacity has been applied to an image with visible pixels
C22_Witness ==
    /\ Called("apply_opacity")
    /\ fn_args.opacity < 0
    /\ \E i \in 1..Len(fn_args.image.alpha) : fn_args.image.alpha[i] > 0
    /\ \A i \in 1..Len(fn_ret.value.alpha) : fn_ret.value.alpha[i] = 0

(***************************************************************************)
(* File names: C25                                                         *)
(***************************************************************************)
\* seq ends with tail
EndsWith(seq, tail) ==
    /\ Len(tail) <= Len(seq)
    /\ SubSeq(seq, Len(seq) - Len(tail) + 1, Len(seq)) = tail

\* C25: sanitize_filename returns a name that is not empty and has at most
\* MAX_FILENAME_LENGTH characters; a name that is too long is cut in its
\* stem and keeps its extension; the empty name, and a name of which
\* nothing is left, give "unnamed.jpg".
C25_BoundedNonEmptyName ==
    Called("sanitize_filename") =>
        LET cleaned == Cleaned(fn_args.filename)
            name == fn_ret.value
        IN  /\ fn_ret.kind = "returned"
            /\ name # <<>>
            /\ Len(name) <= MAX_FILENAME_LENGTH
            /\ Len(cleaned) > MAX_FILENAME_LENGTH =>
                  /\ EndsWith(name, SplitExt(cleaned).ext)
                  /\ Len(name) = MAX_FILENAME_LENGTH
            /\ (fn_args.filename = <<>> \/ cleaned = <<>>) =>
                  name = UnnamedJpg

(***************************************************************************)
(* Export: C23                                                             *)
(***************************************************************************)
\* channel out lies where the paste of channel c onto white under the mask
\* a puts it: c for a = 255, white for a = 0, in between otherwise, within
\* the rounding of one step
OnWhite(out, c, a) ==
    /\ 2 * 255 * out <= 2 * (c * a + 255 * (255 - a)) + 255
    /\ 2 * 255 * out >= 2 * (c * a + 255 * (255 - a)) - 255

\* C23: exported as JPEG the image is RGB, every pixel being the RGBA pixel
\* laid on white under its alpha value; as PNG or WEBP the image is saved
\* as RGBA with its pixels as they are; the metadata of the source is
\* passed on only for JPEG and WEBP; for PNG the bytes do not depend on the
\* quality.
C23_ExportByFormat ==
    Called("_export_image") /\ fn_args.output_fmt \in {"JPEG", "PNG", "WEBP"} =>
        LET img == fn_args.img
            fmt == fn_args.output_fmt
            out == fn_ret.value
        IN  /\ fn_ret.kind = "returned"
            /\ out.kwargs.format = fmt
            /\ fmt = "JPEG" =>
                  /\ out.mode = "RGB"
                  /\ Len(out.img.pixels) = Len(img.pixels)
                  /\ \A i \in 1..Len(img.pixels) :
                        /\ Len(out.img.pixels[i]) = 3
                        /\ \A ch \in 1..3 :
                              OnWhite(out.img.pixels[i][ch],
                                      img.pixels[i][ch], img.pixels[i][4])
            /\ fmt \in {"PNG", "WEBP"} =>
                  out.mode = "RGBA" /\ out.img = img
            /\ "exif" \in DOMAIN out.kwargs <=>
                  fmt \in {"JPEG", "WEBP"} /\ fn_args.exif_data # ""
            /\ "exif" \in DOMAIN out.kwargs =>
                  out.kwargs.exif = fn_args.exif_data
            /\ fmt \in {"JPEG", "WEBP"} => out.kwargs.quality = fn_args.quality
            /\ fmt = "PNG" =>
                  \A q \in Qualities :
                      out = _export_image(img, fmt, q, fn_args.exif_data)

\* a PNG has been exported from a source with metadata, at a quality other
\* than the highest
C23_Witness ==
    /\ Called("_export_image")
    /\ fn_args.output_fmt = "PNG"
    /\ fn_args.exif_data # ""
    /\ fn_args.quality = 50
    /\ fn_ret.kind = "returned"
    /\ \E i \in 1..Len(fn_args.img.pixels) : fn_args.img.pixels[i][4] = 128

(***************************************************************************)
(* Colour strings: C24                                                     *)
(***************************************************************************)
IsHexDigit(c) == c \in DOMAIN HexDigit

\* '#' followed by six hexadecimal digits
HashAndSixDigits(str) ==
    /\ Len(str) = 7
    /\ str[1] = "#"
    /\ \A i \in 2..7 : IsHexDigit(str[i])

\* C24: validate_color_hex returns for exactly the strings made of '#' and
\* six hexadecimal digits, and then returns the values of the three digit
\* pairs; for every other string it raises ValidationError.
C24_AcceptsExactlyHashSixDigits ==
    Called("validate_color_hex") =>
        LET c == fn_args.color_hex
        IN  IF HashAndSixDigits(c)
            THEN /\ fn_ret.kind = "returned"
                 /\ fn_ret.value =
                        <<16 * HexDigit[c[2]] + HexDigit[c[3]],
                          16 * HexDigit[c[4]] + HexDigit[c[5]],
                          16 * HexDigit[c[6]] + HexDigit[c[7]]>>
            ELSE fn_ret.kind = "raised" /\ fn_ret.exc = "ValidationError"

(***************************************************************************)
(* The thumbnail cache: C26                                                *)
(***************************************************************************)
\* the step is a return of fn
StepOf(fn) == fn_args'.fn = fn /\ fn_ret'.kind = "returned"

\* a thumbnail returned exists and was made from the content the file has
\* now, at the one path that belongs to the file
CurrentThumbnail ==
    StepOf("get_thumbnail") /\ fn_ret'.value # "None" =>
        /\ fn_ret'.value = ThumbPath(fn_args'.file_path)
        /\ fs'.thumb.exists
        /\ fs'.thumb.of = fs'.file.version
        /\ fs'.file = fs.file

\* the cached thumbnail is left as it is when it is strictly newer than the
\* file, and written again when it is not
ReusedWhileNewer ==
    StepOf("get_thumbnail") /\ fn_ret'.value # "None" =>
        IF fs.thumb.exists /\ fs.thumb.mtime > fs.file.mtime
        THEN fs'.thumb = fs.thumb
        ELSE fs'.thumb.mtime = fs.clock

\* remove_thumbnail returns True exactly when a thumbnail was there and is
\* gone
RemovedExactly ==
    StepOf("remove_thumbnail") =>
        /\ fn_ret'.value = (fs.thumb.exists /\ ~fs'.thumb.exists)
        /\ ~fs.thumb.exists => fs'.thumb = fs.thumb

\* a rotation that succeeded has changed the file
Rotated == StepOf("rotate_image_file") /\ fn_ret'.value = TRUE

\* C26 as stated: a thumbnail returned by get_thumbnail was made from the
\* current content of the file, a cached one being reused only while it is
\* strictly newer than the file; remove_thumbnail returns True exactly when
\* it deleted a thumbnail; after a successful rotate_image_file there is no
\* cached thumbnail.
C26_ThumbnailCache ==
    [][/\ CurrentThumbnail
       /\ ReusedWhileNewer
       /\ RemovedExactly
       /\ Rotated => ~fs'.thumb.exists]_vars

\* C26 amended: as above, but after a successful rotate_image_file a
\* thumbnail may be left on disk when deleting it failed; it is then not
\* newer than the rotated file, so get_thumbnail does not reuse it.
C26_ThumbnailCacheAmended ==
    [][/\ CurrentThumbnail
       /\ ReusedWhileNewer
       /\ RemovedExactly
       /\ Rotated => /\ fs'.file.version # fs.file.version
                      /\ fs'.thumb.exists =>
                            /\ fs'.thumb = fs.thumb
                            /\ fs'.thumb.mtime <= fs'.file.mtime]_vars

\* get_thumbnail has returned a thumbnail of a file that was modified
\* after an earlier thumbnail of it had been made
C26_Witness ==
    /\ pc = "thumbnails"
    /\ fn_args.fn = "get_thumbnail"
    /\ fn_ret.kind = "returned" /\ fn_ret.value # "None"
    /\ fs.file.version > 1
    /\ fs.thumb.of = fs.file.version
    /\ fs.thumb.mtime = fs.file.mtime

(***************************************************************************)
(* Sizes out of range: C27                                                 *)
(***************************************************************************)
\* C27: when a side computed by _calculate_resize is below 10 or above
\* 10000 the call returns (orig_w, orig_h, 1.0); so every size returned is
\* the original one or has both sides in [10, 10000].
C27_OutOfRangeAbandoned ==
    Returned =>
        LET a == resize_args
            computed == ResizeByMode(a.orig_w, a.orig_h, a.config)
        IN  /\ (/\ a.config.enabled
                /\ ~(InRange(computed.new_w) /\ InRange(computed.new_h)))
                  => Identity
            /\ \/ resize_ret.new_w = a.orig_w /\ resize_ret.new_h = a.orig_h
               \/ InRange(resize_ret.new_w) /\ InRange(resize_ret.new_h)

\* a width of 10001 was asked for an image of a valid size, and the
\* original size came back
C27_Witness ==
    /\ pc = "resized"
    /\ resize_args.config.enabled
    /\ resize_args.config.mode = "Exact Width"
    /\ resize_args.config.value = MAX_IMAGE_DIMENSION + 1
    /\ InRange(resize_args.orig_w) /\ InRange(resize_args.orig_h)
    /\ resize_ret.new_w = resize_args.orig_w
    /\ resize_ret.new_h = resize_args.orig_h
    /\ resize_ret.scale_factor = FOne

(***************************************************************************)
(* Failures while compositing: C28                                         *)
(***************************************************************************)
\* call c has been through _apply_watermark
Composed(c) == \E i \in 1..Len(c.trace) : c.trace[i] = "watermark"

\* C28: _apply_watermark never raises: a call that reached it raises only
\* if the export after it fails; when the compositing itself fails, the
\* canvas goes on as it was after the resize, without a watermark, and
\* process_image returns the bytes of that canvas and the statistics.
C28_WatermarkFailureSwallowed ==
    \A id \in DOMAIN calls :
        LET c == calls[id]
        IN  /\ (Composed(c) /\ Done(c) /\ c.ret.kind = "raised")
                  => c.fault = "export"
            /\ (Composed(c) /\ c.fault = "watermark") =>
                  /\ c.img = [size |-> ResizedSize(c.orig[1], c.orig[2],
                                                   c.resize),
                              px |-> <<>>]
                  /\ Done(c) =>
                        /\ c.ret.kind = "returned"
                        /\ c.ret.exc = "" /\ c.ret.msg = ""
                        /\ c.ret.bytes.img = c.img
                        /\ c.ret.bytes.fmt = c.output_fmt
                        /\ c.ret.stats.filename = c.filename
                        /\ c.ret.stats.new_res = c.img.size

\* a call whose compositing failed has returned
C28_Witness ==
    \E id \in DOMAIN calls :
        /\ Done(calls[id])
        /\ calls[id].fault = "watermark"
        /\ Composed(calls[id])
        /\ calls[id].wm_given
        /\ calls[id].ret.kind = "returned"

(***************************************************************************)
(* The selection stays inside the workspace: C29                           *)
(***************************************************************************)
\* C29: after any sequence of upload, select, deselect, select all,
\* deselect all, delete selected and clear workspace, every selected name
\* is a key of file_cache.
C29_SelectionWithinCache ==
    pc \in {"workspace", "cleared", "uploaded", "selected_all",
            "deselected_all", "deleted", "toggled"} =>
        session_state.selected_files \subseteq DOMAIN session_state.file_cache

\* some of the files were selected and deleted, others are left
C29_Witness ==
    /\ pc = "deleted"
    /\ session_state.selected_files = {}
    /\ DOMAIN session_state.file_cache # {}

(***************************************************************************)
(* Output names within one batch: C30                                      *)
(***************************************************************************)
\* C30: the output names generated for the files of one batch differ from
\* each other, in both naming modes, and so do the names of the entries
\* written to the ZIP and to the result list.
C30_OutputNamesDistinct ==
    /\ \A id, other \in DOMAIN calls :
          id # other => calls[id].filename # calls[other].filename
    /\ \A i, j \in 1..Len(frame.zip) :
          i # j => frame.zip[i][1] # frame.zip[j][1]
    /\ \A i, j \in 1..Len(frame.results) :
          i # j => frame.results[i][1] # frame.results[j][1]

====
